---- MODULE Spec2Model ----
(***************************************************************************)
(* cw-multi-test (clone-testing fork): the contract execution lifecycle of *)
(* WasmKeeper (src/src/wasm.rs) and the dual local/remote storage          *)
(* (src/src/wasm_emulation/storage).                                       *)
(*                                                                         *)
(* The contract code itself is the VM's business: every entry-point        *)
(* invocation is a nondeterministic choice of the writes the contract      *)
(* makes and of the Result<Response> it returns.  What runs between two    *)
(* invocations (with_storage, verify_response, build_app_response,         *)
(* process_response, execute_submsg, reply) is translated from wasm.rs;    *)
(* the recursion of the source is kept as an explicit stack of frames.     *)
(***************************************************************************)
EXTENDS Integers, Sequences, FiniteSets, TLC

\* ------------------------------------------------------------------ bounds
\* submessages emitted by the responses of one top-level call
MaxSubMsgs == 2
\* records an iterator is asked for before it is dropped
MaxYield == 7
\* the coins a user holds to start with
MaxFunds == 1

\* ------------------------------------------------------------- vocabulary
Contracts == {"c1", "c2"}
Users == {"user"}
SKeys == {"k"}
ReplyOn == {"Never", "Success", "Error", "Always"}

NoVal == <<>>
Val == <<1>>
NoData == [some |-> FALSE, v |-> <<>>]
SomeData(n) == [some |-> TRUE, v |-> <<n>>]

\* str.trim(): strip the blanks at both ends
RECURSIVE TrimStart(_)
TrimStart(s) == IF s # <<>> /\ Head(s) = " " THEN TrimStart(Tail(s)) ELSE s
RECURSIVE TrimEnd(_)
TrimEnd(s) ==
    IF s # <<>> /\ s[Len(s)] = " " THEN TrimEnd(SubSeq(s, 1, Len(s) - 1)) ELSE s
trim(s) == TrimEnd(TrimStart(s))

Top(s) == s[Len(s)]
Pop(s) == SubSeq(s, 1, Len(s) - 1)

\* ------------------------------------------------------------------ state
VARIABLES
    layers,   \* the storage transactions in progress; layers[1] is the chain's store
    stack,    \* the frames of the calls in progress, innermost last
    pc,       \* "idle" | "enter" | "loop" | "ret"
    call,     \* the entry point about to be invoked (pc = "enter")
    ret,      \* the result being returned to the innermost frame (pc = "ret")
    last,     \* the result of the last call made through the app
    ninv,     \* entry-point invocations of the current call
    nemit,    \* submessages emitted by the responses of the current call
    subs,     \* the submessages dispatched by the current call, in dispatch order
    lastInv,  \* what the contract did in the invocation that just ended
    undone    \* the keys whose writes the transaction that just failed dropped

wvars == <<layers, stack, pc, call, ret, last, ninv, nemit, subs, lastInv, undone>>

VARIABLES
    variant,        \* "std" (dual_std_storage.rs) or "vm" (dual_storage.rs)
    last_page,      \* how the remote chain ends its paging: "none" or "empty" next_key
    remote,         \* the contract's state on the remote chain; <<>> where it has none
    local_storage,  \* the local store; NoVal for a key it does not hold
    removed_keys,   \* the keys removed locally
    lastGet,        \* the last point read: key, value returned, remote query sent or not
    iter,           \* the range iterator in use
    out,            \* the records the iterator has yielded
    fetches,        \* the page requests the iterator has sent
    rewritten,      \* the keys written again after they had been removed
    gone            \* the keys removed in an earlier call and not written since

dvars == <<variant, last_page, remote, local_storage, removed_keys, lastGet, iter, out,
           fetches, rewritten, gone>>

VARIABLES
    rust_codes,     \* the code ids stored locally
    contracts,      \* the local contract records, by address
    assigned,       \* the addresses successful instantiations have returned
    reused,         \* an instantiation has returned an address assigned before
    lastOp          \* the last wasm message: its input, result and storage left

rvars == <<rust_codes, contracts, assigned, reused, lastOp>>

VARIABLES
    chains,         \* each chain's IBC records and the accounts packets move coins between
    job,            \* the relayer function in progress: its step and what it has read
    lastJob         \* the relayer function that has just returned: its calls and result

ivars == <<chains, job, lastJob>>

VARIABLES
    balances,       \* the bank's coins, by account and denomination
    sent_through,   \* the denominations transfers have sent out, by channel
    lastBank        \* the last bank call: its input, its result, the balances before

bvars == <<balances, sent_through, lastBank>>

vars == <<wvars, dvars, rvars, ivars, bvars>>

View == Top(layers)

\* the keys that two stores hold different values for
Diff(a, b) == {ck \in Contracts \X SKeys : a[ck[1]][ck[2]] # b[ck[1]][ck[2]]}

\* ------------------------------------------------- transactions (overlay)
\* transactional(base, action): the action runs on a cache over the base; its
\* writes are merged into the base when it returns Ok and dropped otherwise.
TxBegin(ls) == Append(ls, Top(ls))
TxCommit(ls) == Append(Pop(Pop(ls)), Top(ls))
TxRollback(ls) == Pop(ls)

\* ------------------------------------------------------- errors and data
NoErr == [kind |-> "none", inv |-> 0, ctx |-> <<>>]
ContractErr(inv) == [kind |-> "contract", inv |-> inv, ctx |-> <<>>]
VerifyErr(kind, inv) == [kind |-> kind, inv |-> inv, ctx |-> <<>>]
VerifyKinds ==
    {"empty_attribute_key", "empty_attribute_value", "reserved_attribute_key",
     "event_type_too_short"}

\* anyhow's .context(format!("Error executing WasmMsg: sender, msg")): the error
\* is wrapped, its cause stays underneath
WithContext(e, sender, contract) ==
    [e EXCEPT !.ctx = Append(@, <<sender, contract>>)]

RECURSIVE Reverse(_)
Reverse(s) == IF s = <<>> THEN <<>> ELSE Append(Reverse(Tail(s)), Head(s))

\* format!("{:?}", e): the outermost context first, then the chain of causes
DebugText(e) == [chain |-> Reverse(e.ctx), root |-> <<e.kind, e.inv>>]

\* ExecuteResponse { data } in protobuf: field 1, wire type 2, length, bytes
execute_response(data) ==
    IF data.some
    THEN [some |-> TRUE, v |-> <<10, Len(data.v)>> \o data.v]
    ELSE NoData

Ok(events, data) == [ok |-> TRUE, events |-> events, data |-> data, err |-> NoErr]
Err(e) == [ok |-> FALSE, events |-> <<>>, data |-> NoData, err |-> e]

\* Option::or
OrData(a, b) == IF a.some THEN a ELSE b

\* ---------------------------------------------------- contract behaviour
\* What an entry point may do: write or remove keys of its own namespace, and
\* return Err or a Response {messages, attributes, events, data}.
WriteOps == [SKeys -> {"keep", "set", "del"}]

Attr(k, v) == [key |-> k, value |-> v]
Event(ty, attrs) == [ty |-> ty, attributes |-> attrs]

BadDecors ==
    { [attributes |-> <<Attr(<<" ">>, <<"b">>)>>, events |-> <<>>],
      [attributes |-> <<Attr(<<"a">>, <<>>)>>, events |-> <<>>],
      [attributes |-> <<Attr(<<"_", "a">>, <<"b">>)>>, events |-> <<>>],
      [attributes |-> <<>>, events |-> <<Event(<<" ", "a", " ">>, <<>>)>>],
      [attributes |-> <<>>, events |-> <<Event(<<>>, <<>>)>>],
      [attributes |-> <<Attr(<<"a">>, <<"b">>)>>,
       events |-> <<Event(<<"a", "b">>, <<Attr(<<"a">>, <<" ">>)>>)>>] }

ReservedDecor == [attributes |-> <<Attr(<<"_", "a">>, <<"b">>)>>, events |-> <<>>]

\* the lists of at most n submessages a response may hold, each a
\* WasmMsg::Execute for a contract of T with a reply policy of P
RECURSIVE MsgLists(_, _, _)
MsgLists(P, T, n) ==
    IF n = 0 THEN {<<>>}
    ELSE LET shorter == MsgLists(P, T, n - 1) IN
         shorter \cup
         { Append(l, [reply_on |-> p, target |-> t]) :
             l \in {x \in shorter : Len(x) = n - 1}, p \in P, t \in T }

PlainDecor == [attributes |-> <<>>, events |-> <<>>]
NoWrites == [k \in SKeys |-> "keep"]
SetAll == [k \in SKeys |-> "set"]
PaddedDecor ==
    [attributes |-> <<Attr(<<" ", "a">>, <<"b", " ">>)>>,
     events |-> <<Event(<<" ", "a", "b">>, <<Attr(<<"a">>, <<"b">>)>>)>>]

\* a response with an attribute and two events, and one with an event only
EventsDecor ==
    [attributes |-> <<Attr(<<"a">>, <<"b">>)>>,
     events |-> <<Event(<<"a", "b">>, <<>>),
                  Event(<<"c", "d">>, <<Attr(<<"e">>, <<"f">>)>>)>>]
EventOnlyDecor == [attributes |-> <<>>, events |-> <<Event(<<"a", "b">>, <<>>)>>]
EventDecors == {EventsDecor, EventOnlyDecor}

\* the behaviours of an entry point that may still emit `budget` submessages:
\* its writes are drawn from W, the decoration of its response from the good
\* ones G and the faulty ones B, it returns data or not as D says, and its
\* submessages have their reply policy in P and go to the contracts of T
Behaviours(W, G, B, D, P, T, budget) ==
    [writes : W, result : {"err"}, decor : {PlainDecor}, data : {FALSE}, msgs : {<<>>}]
    \cup
    [writes : W, result : {"ok"}, decor : B, data : {FALSE}, msgs : {<<>>}]
    \cup
    [writes : W, result : {"ok"}, decor : G, data : D, msgs : MsgLists(P, T, budget)]

\* ------------------------------------------------------------ wasm keeper
\* verify_attributes: the first attribute at fault decides the error
RECURSIVE verify_attributes(_)
verify_attributes(attributes) ==
    IF attributes = <<>> THEN "ok"
    ELSE LET key == trim(Head(attributes).key)
             val == trim(Head(attributes).value)
         IN  IF key = <<>> THEN "empty_attribute_key"
             ELSE IF val = <<>> THEN "empty_attribute_value"
             ELSE IF Head(key) = "_" THEN "reserved_attribute_key"
             ELSE verify_attributes(Tail(attributes))

RECURSIVE verify_events(_)
verify_events(events) ==
    IF events = <<>> THEN "ok"
    ELSE LET a == verify_attributes(Head(events).attributes)
             ty == trim(Head(events).ty)
         IN  IF a # "ok" THEN a
             ELSE IF Len(ty) < 2 THEN "event_type_too_short"
             ELSE verify_events(Tail(events))

\* a faulty verification that looks at the attributes of the response only
verify_response_attributes_only(response) == verify_attributes(response.attributes)

\* "ok", or the kind of the error the response is rejected with
verify_response(response) ==
    LET a == verify_attributes(response.attributes)
    IN  IF a # "ok" THEN a ELSE verify_events(response.events)

CONTRACT_ATTR == <<"_", "contract_address">>
mock_wasmd_attr(key, contract) == Attr(key, <<contract>>)

RECURSIVE wasm_events(_, _)
wasm_events(contract, events) ==
    IF events = <<>> THEN <<>>
    ELSE <<Event(<<"wasm-">> \o Head(events).ty,
                 <<mock_wasmd_attr(CONTRACT_ATTR, contract)>> \o Head(events).attributes)>>
         \o wasm_events(contract, Tail(events))

\* a faulty build_app_response that emits the "wasm" event in every case
build_app_response_always_wasm(contract, custom_event, response) ==
    <<custom_event>>
    \o <<Event(<<"wasm">>,
               <<mock_wasmd_attr(CONTRACT_ATTR, contract)>> \o response.attributes)>>
    \o wasm_events(contract, response.events)

\* the events of the app response: the entry point's own event, the "wasm" event
\* when the contract set attributes, the contract's events with their prefix
build_app_response(contract, custom_event, response) ==
    <<custom_event>>
    \o (IF response.attributes # <<>>
        THEN <<Event(<<"wasm">>,
                     <<mock_wasmd_attr(CONTRACT_ATTR, contract)>> \o response.attributes)>>
        ELSE <<>>)
    \o wasm_events(contract, response.events)

\* the contract's writes, made in its own namespace
ApplyWrites(storage, contract, writes) ==
    [storage EXCEPT ![contract] =
        [k \in SKeys |-> CASE writes[k] = "set" -> Val
                           [] writes[k] = "del" -> NoVal
                           [] OTHER -> @[k]]]

\* with_storage: the entry point runs in a transaction of its own, merged into
\* `storage` when the entry point returns Ok and dropped when it returns Err
with_storage(storage, contract, b) ==
    LET write_cache == ApplyWrites(storage, contract, b.writes)
    IN  IF b.result = "ok" THEN write_cache ELSE storage

NoReply == [id |-> 0, ok |-> TRUE, events |-> <<>>, data |-> NoData,
            err |-> DebugText(NoErr)]
NoCall == [entry |-> "none", contract |-> "none", sender |-> "none", reply |-> NoReply]
NoQuery == "none"
NoInv == [entry |-> "none", contract |-> "none", result |-> "none",
          attributes |-> <<>>, events |-> <<>>,
          asked |-> NoQuery, snapshot |-> <<>>, read |-> <<>>]
NoMsg == [id |-> 0, reply_on |-> "Never", target |-> "none"]
NoRes == Ok(<<>>, NoData)

Frame(kind) ==
    [kind |-> kind, entry |-> "none", contract |-> "none", sender |-> "none",
     inv |-> 0, msgs |-> <<>>, npos |-> 0, data |-> NoData, events |-> <<>>,
     own |-> NoData, replyData |-> <<>>, subData |-> <<>>,
     uid |-> 0, msg |-> NoMsg, pre |-> <<>>, r |-> NoRes, mode |-> "none",
     base |-> 0, funds |-> 0]

\* the submessages of a response get the ids nemit+1, nemit+2, ...
WithIds(msgs, from) ==
    [i \in 1..Len(msgs) |->
        [id |-> from + i, reply_on |-> msgs[i].reply_on, target |-> msgs[i].target]]

custom_event(c) ==
    IF c.entry = "reply"
    THEN Event(<<"reply">>, <<mock_wasmd_attr(CONTRACT_ATTR, c.contract),
                              Attr(<<"mode">>, IF c.reply.ok THEN <<"handle_success">>
                                                ELSE <<"handle_failure">>)>>)
    ELSE Event(<<c.entry>>, <<mock_wasmd_attr(CONTRACT_ATTR, c.contract)>>)

\* call_execute / call_sudo / call_reply, and what their caller does with the
\* response before process_response: the contract runs under with_storage, its
\* response is verified, the app response is built
\* the querier storage of the entry points that make no query is not looked at
Unread(storage) == <<>>

\* a faulty keeper that hands out the chain's store as it was before the
\* transaction in progress
get_querier_storage_committed(storage) == layers[1]

\* get_querier_storage: all the wasm state and all the bank state, copied out
\* of the storage it is given
get_querier_storage(storage) == storage

\* the queries a contract makes about itself while it runs, after its writes:
\* WasmQuery::Raw for its key, BankQuery::Balance for its coins.  MockQuerier
\* answers them from fork_state.querier_storage
Queries == {"raw", "balance"}
MockQuerier_query(querier_storage, request, contract) ==
    CASE request = "raw" -> querier_storage[contract]["k"]
      [] request = "balance" -> <<querier_storage["bank"][contract]>>
      [] OTHER -> <<>>

entry_point_querying(W, G, B, D, P, T, Q) ==
    /\ pc = "enter"
    /\ call.contract \in Contracts
    /\ \E b \in Behaviours(W, G, B, D, P, T \ {call.contract},
                           MaxSubMsgs - nemit), q \in Q :
         LET inv == ninv + 1
             c == call.contract
             querier_storage == IF q = NoQuery THEN Unread(View)
                                ELSE get_querier_storage(View)
             store == with_storage(View, c, b)
             response == [attributes |-> b.decor.attributes, events |-> b.decor.events,
                          data |-> IF b.data THEN SomeData(inv) ELSE NoData,
                          msgs |-> WithIds(b.msgs, nemit)]
             verdict == verify_response(response)
             e == IF b.result = "err" THEN ContractErr(inv) ELSE VerifyErr(verdict, inv)
         IN  /\ ninv' = inv
             /\ layers' = [layers EXCEPT ![Len(layers)] = store]
             /\ lastInv' = [entry |-> call.entry, contract |-> c, result |-> b.result,
                            attributes |-> response.attributes,
                            events |-> response.events,
                            asked |-> q, snapshot |-> querier_storage,
                            read |-> MockQuerier_query(querier_storage, q, c)]
             /\ call' = NoCall
             /\ undone' = {}
             /\ IF b.result = "ok" /\ verdict = "ok"
                THEN /\ stack' = Append(stack,
                            [Frame("P") EXCEPT
                               !.entry = call.entry, !.contract = c,
                               !.sender = call.sender, !.inv = inv,
                               !.msgs = response.msgs, !.data = response.data,
                               !.own = response.data, !.base = nemit,
                               !.events = build_app_response(c, custom_event(call),
                                                             response)])
                     /\ nemit' = nemit + Len(response.msgs)
                     /\ pc' = "loop"
                     /\ ret' = NoRes
                ELSE /\ ret' = Err(IF call.entry = "execute"
                                   THEN WithContext(e, call.sender, c) ELSE e)
                     /\ pc' = "ret"
                     /\ UNCHANGED <<stack, nemit>>
    /\ UNCHANGED <<last, subs>>
    /\ UNCHANGED <<dvars, rvars, ivars, bvars>>

\* the entry points of contracts that make no query
entry_point(W, G, B, D, P, T) == entry_point_querying(W, G, B, D, P, T, {NoQuery})

\* the entry points of contracts whose messages go to contracts only
call_entry_point(W, G, B, D, P) == entry_point(W, G, B, D, P, Contracts)

\* a faulty fold in which the data the parent already has wins
Folded_keeping_first(frame, sub_res) ==
    [frame EXCEPT !.events = @ \o sub_res.events,
                  !.data = OrData(@, sub_res.data)]

\* process_response's fold step, once execute_submsg has returned Ok(sub_res):
\* the events are appended and the data of the submessage, if any, takes over
Folded(frame, sub_res) ==
    [frame EXCEPT !.events = @ \o sub_res.events,
                  !.data = OrData(sub_res.data, @)]

\* the same, with the history the properties read: what each Reply returned
\* (NoData when no Reply ran) and what each submessage's own execution returned
Deliver(frame, sub_res, replied, executed) ==
    [Folded(frame, sub_res) EXCEPT !.replyData = Append(@, replied),
                                   !.subData = Append(@, executed)]

SetSub(uid, status, ok, nreply, rep) ==
    [subs EXCEPT ![uid].status = status, ![uid].ok = ok, ![uid].nreply = nreply,
                 ![uid].rep = rep]

\* a faulty fold that takes the submessages from the end of the list
next_submsg_from_end(msgs) == [msg |-> msgs[Len(msgs)], rest |-> Pop(msgs)]

\* the submessage process_response's fold takes next, and the ones left
next_submsg(msgs) == [msg |-> Head(msgs), rest |-> Tail(msgs)]

\* a faulty keeper that merges the submessage's writes whatever it returned
submsg_store_always_merged(ls, ok) == TxCommit(ls)

\* transactional(storage, |write_cache, _| router.execute(.., write_cache, ..)):
\* the submessage's writes reach `storage` only when it returned Ok
submsg_store(ls, ok) == IF ok THEN TxCommit(ls) ELSE TxRollback(ls)

\* a faulty match that forgets ReplyOn::Success
reply_on_ok_always_only(reply_on) == reply_on = "Always"

\* matches!(reply_on, ReplyOn::Always | ReplyOn::Success)
reply_on_ok(reply_on) == reply_on \in {"Always", "Success"}

\* a faulty match that forgets ReplyOn::Error
reply_on_err_always_only(reply_on) == reply_on = "Always"

\* matches!(reply_on, ReplyOn::Always | ReplyOn::Error)
reply_on_err(reply_on) == reply_on \in {"Always", "Error"}

\* process_response takes the next submessage; execute_submsg opens its
\* transaction and hands the message to the router
execute_submsg_call ==
    /\ pc = "loop"
    /\ Top(stack).kind = "P"
    /\ Top(stack).msgs # <<>>
    /\ LET parent == Top(stack)
           msg == next_submsg(parent.msgs).msg
           uid == Len(subs) + 1
       IN  /\ stack' = Pop(stack)
                  \o <<[parent EXCEPT !.msgs = next_submsg(@).rest, !.npos = @ + 1],
                       [Frame("S") EXCEPT !.uid = uid, !.msg = msg,
                                          !.contract = parent.contract,
                                          !.pre = View]>>
           /\ layers' = TxBegin(layers)
           /\ call' = [entry |-> "execute", contract |-> msg.target,
                       sender |-> parent.contract, reply |-> NoReply]
           /\ subs' = Append(subs, [parent |-> parent.inv, pos |-> parent.npos + 1,
                                    id |-> msg.id, reply_on |-> msg.reply_on,
                                    target |-> msg.target,
                                    idx |-> msg.id - parent.base,
                                    status |-> "exec", ok |-> FALSE, nreply |-> 0,
                                    rep |-> "none", dropped |-> 0])
    /\ pc' = "enter"
    /\ lastInv' = NoInv
    /\ undone' = {}
    /\ UNCHANGED <<ret, last, ninv, nemit>>
    /\ UNCHANGED <<dvars, rvars, ivars, bvars>>

\* execute_submsg, the submessage returned Ok(r): its writes are merged, and
\* Reply is called under Always and Success
execute_submsg_ok ==
    /\ pc = "ret"
    /\ ret.ok
    /\ Top(stack).kind = "S"
    /\ LET f == Top(stack)
           r == ret
       IN  /\ layers' = submsg_store(layers, TRUE)
           /\ IF reply_on_ok(f.msg.reply_on)
              THEN /\ stack' = Append(Pop(stack),
                                      [f EXCEPT !.kind = "R", !.r = r, !.mode = "ok"])
                   /\ call' = [entry |-> "reply", contract |-> f.contract,
                               sender |-> "none",
                               reply |-> [id |-> f.msg.id, ok |-> TRUE,
                                          events |-> r.events, data |-> r.data,
                                          err |-> DebugText(NoErr)]]
                   /\ subs' = SetSub(f.uid, "reply", TRUE, subs[f.uid].nreply + 1, "none")
                   /\ pc' = "enter"
                   /\ UNCHANGED ret
              ELSE /\ stack' = Append(Pop(Pop(stack)),
                                      Deliver(stack[Len(stack) - 1],
                                              Ok(r.events, NoData), NoData, r.data))
                   /\ subs' = SetSub(f.uid, "done", TRUE, subs[f.uid].nreply, "none")
                   /\ pc' = "loop"
                   /\ ret' = NoRes
                   /\ UNCHANGED call
    /\ lastInv' = NoInv
    /\ undone' = {}
    /\ UNCHANGED <<last, ninv, nemit>>
    /\ UNCHANGED <<dvars, rvars, ivars, bvars>>

\* execute_submsg, the submessage returned Err(e): its writes are dropped, and
\* Reply is called with the error's text under Always and Error
execute_submsg_err ==
    /\ pc = "ret"
    /\ ~ret.ok
    /\ Top(stack).kind = "S"
    /\ LET f == Top(stack)
           e == ret.err
       IN  /\ layers' = submsg_store(layers, FALSE)
           /\ undone' = Diff(View, View')
           /\ IF reply_on_err(f.msg.reply_on)
              THEN /\ stack' = Append(Pop(stack),
                                      [f EXCEPT !.kind = "R", !.mode = "err"])
                   /\ call' = [entry |-> "reply", contract |-> f.contract,
                               sender |-> "none",
                               reply |-> [id |-> f.msg.id, ok |-> FALSE,
                                          events |-> <<>>, data |-> NoData,
                                          err |-> DebugText(e)]]
                   /\ subs' = [SetSub(f.uid, "reply", FALSE, subs[f.uid].nreply + 1,
                                      "none")
                                 EXCEPT ![f.uid].dropped = Cardinality(undone')]
                   /\ pc' = "enter"
                   /\ ret' = NoRes
              ELSE /\ stack' = Pop(stack)
                   /\ subs' = [SetSub(f.uid, "done", FALSE, subs[f.uid].nreply, "none")
                                 EXCEPT ![f.uid].dropped = Cardinality(undone')]
                   /\ pc' = "ret"
                   /\ UNCHANGED <<ret, call>>
    /\ lastInv' = NoInv
    /\ UNCHANGED <<last, ninv, nemit>>
    /\ UNCHANGED <<dvars, rvars, ivars, bvars>>

\* execute_submsg, Reply returned Ok(reply_res): after a successful submessage
\* its data overrides r's and its events follow r's; after a failed one the
\* reply's response is the submessage's response
execute_submsg_replied ==
    /\ pc = "ret"
    /\ ret.ok
    /\ Top(stack).kind = "R"
    /\ LET f == Top(stack)
           reply_res == ret
           sub_res == IF f.mode = "ok"
                      THEN Ok(f.r.events \o reply_res.events, reply_res.data)
                      ELSE reply_res
       IN  /\ stack' = Append(Pop(Pop(stack)),
                              Deliver(stack[Len(stack) - 1], sub_res, reply_res.data,
                                      f.r.data))
           /\ subs' = SetSub(f.uid, "done", subs[f.uid].ok, subs[f.uid].nreply, "ok")
    /\ pc' = "loop"
    /\ ret' = NoRes
    /\ lastInv' = NoInv
    /\ undone' = {}
    /\ UNCHANGED <<layers, call, last, ninv, nemit>>
    /\ UNCHANGED <<dvars, rvars, ivars, bvars>>

\* a faulty keeper that lets a submessage that went well stand when its Reply
\* returned Err
reply_failed_after_ok_ignored(f, reply_res) ==
    IF f.mode = "ok" THEN Ok(f.r.events, NoData) ELSE reply_res

\* what execute_submsg returns when Reply returned Err: that error, through `?`
\* after a submessage that returned Ok and as the tail call after one that
\* returned Err
reply_failed(f, reply_res) == reply_res

\* execute_submsg, Reply returned Err: the error goes up (`?`, or the tail call)
execute_submsg_reply_failed ==
    /\ pc = "ret"
    /\ ~ret.ok
    /\ Top(stack).kind = "R"
    /\ stack' = Pop(stack)
    /\ ret' = reply_failed(Top(stack), ret)
    /\ subs' = SetSub(Top(stack).uid, "done", subs[Top(stack).uid].ok,
                      subs[Top(stack).uid].nreply, "err")
    /\ lastInv' = NoInv
    /\ undone' = {}
    /\ UNCHANGED <<layers, pc, call, last, ninv, nemit>>
    /\ UNCHANGED <<dvars, rvars, ivars, bvars>>

\* process_response, all submessages done: Ok(AppResponse {events, data}), which
\* execute_wasm wraps into an ExecuteResponse
process_response_done ==
    /\ pc = "loop"
    /\ Top(stack).kind = "P"
    /\ Top(stack).msgs = <<>>
    /\ LET f == Top(stack) IN
         ret' = Ok(f.events, IF f.entry = "execute" THEN execute_response(f.data)
                             ELSE f.data)
    /\ stack' = Pop(stack)
    /\ pc' = "ret"
    /\ lastInv' = NoInv
    /\ undone' = {}
    /\ UNCHANGED <<layers, call, last, ninv, nemit, subs>>
    /\ UNCHANGED <<dvars, rvars, ivars, bvars>>

\* process_response, execute_submsg returned Err: `?` ends the fold with that
\* error, and Wasm::execute adds its context to it
process_response_err ==
    /\ pc = "ret"
    /\ ~ret.ok
    /\ Top(stack).kind = "P"
    /\ LET f == Top(stack) IN
         ret' = IF f.entry = "execute"
                THEN Err(WithContext(ret.err, f.sender, f.contract))
                ELSE ret
    /\ stack' = Pop(stack)
    /\ lastInv' = NoInv
    /\ undone' = {}
    /\ UNCHANGED <<layers, pc, call, last, ninv, nemit, subs>>
    /\ UNCHANGED <<dvars, rvars, ivars, bvars>>

\* ------------------------------------------------------------------- app
\* App::execute_contract and App::wasm_sudo: the call runs in a transaction
\* over the chain's store
AppCall(entry, sender, contract) ==
    /\ pc = "idle"
    /\ layers' = TxBegin(layers)
    /\ stack' = <<[Frame("T") EXCEPT !.pre = View]>>
    /\ call' = [entry |-> entry, contract |-> contract, sender |-> sender,
                reply |-> NoReply]
    /\ pc' = "enter"
    /\ ninv' = 0
    /\ nemit' = 0
    /\ subs' = <<>>
    /\ lastInv' = NoInv
    /\ undone' = {}
    /\ last' = NoRes
    /\ UNCHANGED ret
    /\ UNCHANGED <<dvars, rvars, ivars, bvars>>

AppExecute == \E sender \in Users, contract \in Contracts :
                 AppCall("execute", sender, contract)
AppSudo == \E contract \in Contracts : AppCall("sudo", "none", contract)

\* BankKeeper::send (burn, then mint) on behalf of WasmKeeper::send, which does
\* nothing for an empty amount
send(storage, sender, recipient, amount) ==
    IF amount = 0 THEN [ok |-> TRUE, storage |-> storage]
    ELSE IF storage["bank"][sender] < amount THEN [ok |-> FALSE, storage |-> storage]
    ELSE [ok |-> TRUE,
          storage |-> [storage EXCEPT !["bank"] =
                          [a \in DOMAIN @ |->
                              @[a] - (IF a = sender THEN amount ELSE 0)
                                   + (IF a = recipient THEN amount ELSE 0)]]]

BankErr == [kind |-> "bank", inv |-> 0, ctx |-> <<>>]

\* App::execute_contract with funds: in the call's transaction execute_wasm
\* first moves the cash, and calls the contract when that went well
AppExecuteFunds ==
    \E sender \in Users, contract \in Contracts, funds \in 1..MaxFunds :
      \E sent \in {send(View, sender, contract, funds)} :
        /\ pc = "idle"
        /\ layers' = Append(layers, sent.storage)
        /\ stack' = <<[Frame("T") EXCEPT !.pre = View, !.funds = funds,
                                         !.contract = contract]>>
        /\ IF sent.ok
           THEN /\ call' = [entry |-> "execute", contract |-> contract,
                            sender |-> sender, reply |-> NoReply]
                /\ pc' = "enter"
                /\ ret' = NoRes
           ELSE /\ call' = NoCall
                /\ pc' = "ret"
                /\ ret' = Err(WithContext(BankErr, sender, contract))
        /\ ninv' = 0
        /\ nemit' = 0
        /\ subs' = <<>>
        /\ lastInv' = NoInv
        /\ undone' = {}
        /\ last' = NoRes
        /\ UNCHANGED <<dvars, rvars, ivars, bvars>>

AppReturn ==
    /\ pc = "ret"
    /\ Top(stack).kind = "T"
    /\ layers' = IF ret.ok THEN TxCommit(layers) ELSE TxRollback(layers)
    /\ undone' = IF ret.ok THEN {} ELSE Diff(View, View')
    /\ last' = ret
    /\ ret' = NoRes
    /\ stack' = <<>>
    /\ pc' = "idle"
    /\ lastInv' = NoInv
    /\ UNCHANGED <<call, ninv, nemit, subs>>
    /\ UNCHANGED <<dvars, rvars, ivars, bvars>>

\* ---------------------------------------------------------------- modules
\* the modules of the router built as a FailingModule: the custom module and,
\* in an app without an IBC module, the IBC module
Modules == {"custom", "ibc"}

\* the message handed to the router: the one of the submessage being executed,
\* or the one the app was called with (id 0)
Payload == <<"msg", Top(stack).msg.id>>

\* bail!("Unexpected {what} {msg:?} [from {sender:?}] on module {module_type}")
Unexpected(what, msg, sender, module_type) ==
    [kind |-> "unexpected", inv |-> 0, ctx |-> <<>>, what |-> what, msg |-> msg,
     sender |-> sender, module |-> module_type]

\* a faulty module that accepts the message, as AcceptingModule does
FailingModule_execute_accepting(module_type, sender, msg) == Ok(<<>>, NoData)

\* FailingModule::execute
FailingModule_execute(module_type, sender, msg) ==
    Err(Unexpected("exec msg", msg, <<sender>>, module_type))

\* FailingModule::query
FailingModule_query(module_type, request) ==
    Err(Unexpected("custom query", request, <<>>, module_type))

\* FailingModule::sudo
FailingModule_sudo(module_type, msg) ==
    Err(Unexpected("sudo msg", msg, <<>>, module_type))

\* Router::execute / query / sudo for a message of a kind whose module is a
\* FailingModule; the module is given the storage and does not touch it
router_module ==
    /\ pc = "enter"
    /\ call.contract \in Modules
    /\ ret' = CASE call.entry = "execute" ->
                     FailingModule_execute(call.contract, call.sender, Payload)
                [] call.entry = "query" -> FailingModule_query(call.contract, Payload)
                [] call.entry = "sudo" -> FailingModule_sudo(call.contract, Payload)
    /\ pc' = "ret"
    /\ call' = NoCall
    /\ lastInv' = NoInv
    /\ undone' = {}
    /\ UNCHANGED <<layers, stack, last, ninv, nemit, subs>>
    /\ UNCHANGED <<dvars, rvars, ivars, bvars>>

\* App::execute, App::sudo and a query through App::wrap, for a message whose
\* module is a FailingModule
AppModule == \E entry \in {"execute", "query", "sudo"}, module \in Modules :
                AppCall(entry, IF entry = "execute" THEN "user" ELSE "none", module)

\* ----------------------------------------------------------- dual storage
\* DualStorage of dual_std_storage.rs ("std") and of dual_storage.rs ("vm"):
\* local writes over the state of a contract on a remote chain.

\* the keys of a contract's state, of one and of two bytes
DKeys == {<<1>>, <<2>>, <<1, 1>>}
LocalVals == {<<1>>, <<3>>}
RemoteVal == <<2>>

None == [some |-> FALSE, v |-> <<>>]
Some(x) == [some |-> TRUE, v |-> x]
Record(k, v, src) == [key |-> k, value |-> v, src |-> src]

NoGet == [key |-> <<>>, value |-> NoVal, found |-> FALSE, queried |-> FALSE,
          failed |-> FALSE, error |-> FALSE, raw |-> <<>>, op |-> "none"]
NoDistantIter ==
    [data |-> <<>>, position |-> 0, key |-> None, start |-> None, end |-> None,
     reverse |-> FALSE]
NoIter == [active |-> FALSE, ended |-> FALSE, failed |-> FALSE, result |-> "none",
           local_iter |-> <<>>, distant_iter |-> NoDistantIter]

\* BigInt::from_bytes_be(Sign::Plus, key)
RECURSIVE from_bytes_be(_)
from_bytes_be(key) ==
    IF key = <<>> THEN 0 ELSE from_bytes_be(Pop(key)) * 256 + key[Len(key)]

Zeros(n) == [i \in 1..n |-> 0]

\* the shorter key is extended with zero bytes to the length of the longer one
get_key_bigint(key1, key2) ==
    IF Len(key1) >= Len(key2)
    THEN <<from_bytes_be(key1), from_bytes_be(key2 \o Zeros(Len(key1) - Len(key2)))>>
    ELSE <<from_bytes_be(key1 \o Zeros(Len(key2) - Len(key1))), from_bytes_be(key2)>>

gte(key1, key2) == get_key_bigint(key1, key2)[1] >= get_key_bigint(key1, key2)[2]

DISTANT_LIMIT == 5

\* the order of the keys in a store: byte by byte, a prefix first
RECURSIVE LexLess(_, _)
LexLess(a, b) ==
    IF b = <<>> THEN FALSE
    ELSE IF a = <<>> THEN TRUE
    ELSE IF Head(a) # Head(b) THEN Head(a) < Head(b)
    ELSE LexLess(Tail(a), Tail(b))

\* the keys of S in the order of the store, or in the opposite order
RECURSIVE Ordered(_, _)
Ordered(S, reverse) ==
    IF S = {} THEN <<>>
    ELSE LET first == CHOOSE k \in S :
                         \A o \in S \ {k} : IF reverse THEN LexLess(o, k) ELSE LexLess(k, o)
         IN  <<first>> \o Ordered(S \ {first}, reverse)


\* Storage::range of the local store: the keys in [start, end), in the order asked
local_range(store, start, end, reverse) ==
    LET inside == {k \in DKeys : /\ store[k] # NoVal
                                 /\ start.some => ~LexLess(k, start.v)
                                 /\ end.some => LexLess(k, end.v)}
        keys == Ordered(inside, reverse)
    IN  [i \in 1..Len(keys) |-> Record(keys[i], store[keys[i]], "local")]

\* the remote chain's answer to all_contract_state(address, PageRequest {key,
\* offset: 0, limit, count_total: false, reverse}): at most `limit` records from
\* `key` on (from the first one when `key` is empty), and the key of the record
\* that follows; after the last record next_key is empty, or there is no
\* pagination at all
all_contract_state(key, limit, reverse) ==
    LET held == {k \in DKeys : /\ remote[k] # <<>>
                               /\ key # <<>> =>
                                     IF reverse THEN ~LexLess(key, k) ELSE ~LexLess(k, key)}
        keys == Ordered(held, reverse)
        n == IF Len(keys) < limit THEN Len(keys) ELSE limit
    IN  [models |-> [i \in 1..n |-> Record(keys[i], remote[keys[i]], "remote")],
         pagination |-> IF Len(keys) > n THEN Some(keys[n + 1])
                        ELSE IF last_page = "empty" THEN Some(<<>>)
                        ELSE None]

\* QueryAllContractStateResponse::default()
NoPage == [models |-> <<>>, pagination |-> None]

\* the Option<Vec<u8>> a point read returns (found: Some), whether it sent a
\* remote query, and whether it raised an error
GetResult(value, found, queried, error) ==
    [value |-> value, found |-> found, queried |-> queried, error |-> error]

\* a faulty get that asks the remote chain first
get_remote_first(key, failure) ==
    LET query == key \notin removed_keys
        distant == IF query /\ ~failure THEN remote[key] ELSE <<>>
    IN  IF distant # <<>> THEN GetResult(distant, TRUE, query, FALSE)
        ELSE GetResult(local_storage[key], local_storage[key] # NoVal, query, FALSE)

\* a faulty get that does not look at removed_keys
get_ignoring_removed(key, failure) ==
    LET value == local_storage[key]
        query == value = NoVal
    IN  IF query /\ ~failure /\ remote[key] # <<>>
        THEN GetResult(remote[key], TRUE, query, FALSE)
        ELSE GetResult(value, value # NoVal, query, FALSE)

\* a faulty get that hands the failure of the remote query to its caller
get_raising_failure(key, failure) ==
    LET value == local_storage[key]
        query == key \notin removed_keys /\ value = NoVal
    IN  IF query /\ ~failure /\ remote[key] # <<>>
        THEN GetResult(remote[key], TRUE, query, FALSE)
        ELSE GetResult(value, value # NoVal, query, query /\ failure)

\* DualStorage::get: the local value; the remote one when the key is neither held
\* nor removed locally, the query succeeds and its data is not empty
get(key, failure) ==
    LET value == local_storage[key]
        query == key \notin removed_keys /\ value = NoVal
    IN  IF query /\ ~failure /\ remote[key] # <<>>
        THEN GetResult(remote[key], TRUE, query, FALSE)
        ELSE GetResult(value, value # NoVal, query, FALSE)

\* WasmKeeper::query_raw: the value of the local contract storage, else the
\* data of the remote raw query, empty when that query fails
query_raw(key, failure) ==
    IF local_storage[key] # NoVal THEN local_storage[key]
    ELSE IF failure THEN <<>> ELSE remote[key]

\* a point read; no iterator is alive (the std iterator borrows the storage)
Get ==
    /\ ~iter.active
    /\ \E key \in DKeys, failure \in BOOLEAN :
          /\ failure => get(key, failure).queried
          /\ lastGet' = [key |-> key, value |-> get(key, failure).value,
                         found |-> get(key, failure).found,
                         queried |-> get(key, failure).queried,
                         failed |-> failure,
                         error |-> get(key, failure).error,
                         raw |-> query_raw(key, failure), op |-> "get"]
    /\ UNCHANGED <<gone, variant, last_page, remote, local_storage, removed_keys, iter,
                   out, fetches, rewritten>>
    /\ UNCHANGED <<wvars, rvars, ivars, bvars>>

\* DualStorage::set
Set ==
    /\ ~iter.active
    /\ \E key \in DKeys, value \in LocalVals :
          /\ removed_keys' = removed_keys \ {key}
          /\ local_storage' = [local_storage EXCEPT ![key] = value]
          /\ rewritten' = IF key \in removed_keys THEN rewritten \cup {key} ELSE rewritten
          /\ gone' = gone \ {key}
    /\ lastGet' = NoGet
    /\ UNCHANGED <<variant, last_page, remote, iter, out, fetches>>
    /\ UNCHANGED <<wvars, rvars, ivars, bvars>>

\* DualStorage::remove
Remove ==
    /\ ~iter.active
    /\ \E key \in DKeys :
          /\ removed_keys' = removed_keys \cup {key}
          /\ local_storage' = [local_storage EXCEPT ![key] = NoVal]
          /\ rewritten' = rewritten \ {key}
    /\ lastGet' = NoGet
    /\ UNCHANGED <<gone, variant, last_page, remote, iter, out, fetches>>
    /\ UNCHANGED <<wvars, rvars, ivars, bvars>>

\* the bounds a range is asked with; one of them ends with a zero byte
Bounds == {None, Some(<<1, 0>>), Some(<<1, 1>>), Some(<<2>>)}

\* DualStorage::range (std) and DualStorage::scan (vm)
Range ==
    /\ ~iter.active
    /\ \E start \in Bounds, end \in Bounds, reverse \in BOOLEAN :
          LET querier_start == IF reverse
                               THEN (IF end.some THEN end.v ELSE <<>>)
                               ELSE (IF start.some THEN start.v ELSE <<>>)
          IN  iter' = [active |-> TRUE, ended |-> FALSE, failed |-> FALSE,
                       result |-> "none",
                       local_iter |-> local_range(local_storage, start, end, reverse),
                       distant_iter |-> [data |-> <<>>, position |-> 0,
                                         key |-> Some(querier_start),
                                         start |-> start, end |-> end,
                                         reverse |-> reverse]]
    /\ out' = <<>>
    /\ fetches' = <<>>
    /\ lastGet' = NoGet
    /\ UNCHANGED <<gone, variant, last_page, remote, local_storage, removed_keys,
                   rewritten>>
    /\ UNCHANGED <<wvars, rvars, ivars, bvars>>

\* the page filter: the records with start <= key < end as gte sees them
in_bounds(di, m) ==
    /\ di.end.some => ~gte(m.key, di.end.v)
    /\ di.start.some => gte(m.key, di.start.v)

\* step 1 of next: a page is asked for when the fetched records are used up and
\* a continuation key is held; the std iterator does not ask again with an empty
\* key once it has yielded remote records
must_fetch(di) ==
    /\ di.position = Len(di.data)
    /\ di.key.some
    /\ variant = "std" => (di.position = 0 \/ di.key.v # <<>>)

fetched(di, page) ==
    [di EXCEPT !.data = @ \o SelectSeq(page.models, LAMBDA m : in_bounds(di, m)),
               !.key = page.pagination]

\* the vm iterator checks the bounds of the remote record once more
is_valid_distant_key(di) ==
    /\ di.position < Len(di.data)
    /\ variant = "vm" =>
          /\ (~di.end.some \/ di.reverse \/ ~gte(di.data[di.position + 1].key, di.end.v))
          /\ (~di.start.some \/ ~di.reverse \/ gte(di.data[di.position + 1].key, di.start.v))

\* step 2 of next, both sides have a record: the remote one is taken when
\* (key_local < key_distant) == reverse
distant_first(local, distant, reverse) ==
    (from_bytes_be(local.key) < from_bytes_be(distant.key)) = reverse

\* Iter::next (std) and DualStorage::next (vm)
IterNext ==
    /\ iter.active
    /\ ~iter.ended
    /\ Len(out) < MaxYield
    /\ \E failure \in BOOLEAN :
          LET di0 == iter.distant_iter
              fetch == must_fetch(di0)
              page == IF failure THEN NoPage
                      ELSE all_contract_state(di0.key.v, DISTANT_LIMIT, di0.reverse)
              di == IF fetch THEN fetched(di0, page) ELSE di0
              has_local == iter.local_iter # <<>>
              has_distant == is_valid_distant_key(di)
              take_distant ==
                  /\ has_distant
                  /\ has_local => distant_first(Head(iter.local_iter),
                                                di.data[di.position + 1], di.reverse)
          IN  /\ failure => fetch
              /\ fetches' = IF fetch
                            THEN Append(fetches, [key |-> di0.key.v, limit |-> DISTANT_LIMIT,
                                                  pending |-> Len(di0.data) - di0.position,
                                                  failed |-> failure,
                                                  next |-> page.pagination])
                            ELSE fetches
              /\ IF take_distant
                 THEN /\ out' = Append(out, di.data[di.position + 1])
                      /\ iter' = [iter EXCEPT !.distant_iter = [di EXCEPT !.position = @ + 1],
                                              !.failed = @ \/ failure,
                                              !.result = "record"]
                 ELSE IF has_local
                 THEN /\ out' = Append(out, Head(iter.local_iter))
                      /\ iter' = [iter EXCEPT !.distant_iter = di,
                                              !.local_iter = Tail(@),
                                              !.failed = @ \/ failure,
                                              !.result = "record"]
                 ELSE /\ out' = out
                      /\ iter' = [iter EXCEPT !.distant_iter = di, !.ended = TRUE,
                                              !.failed = @ \/ failure,
                                              !.result = "end"]
    /\ lastGet' = NoGet
    /\ UNCHANGED <<gone, variant, last_page, remote, local_storage, removed_keys,
                   rewritten>>
    /\ UNCHANGED <<wvars, rvars, ivars, bvars>>

\* the iterator is dropped
IterDrop ==
    /\ iter.active
    /\ iter.ended \/ Len(out) = MaxYield
    /\ iter' = NoIter
    /\ out' = <<>>
    /\ fetches' = <<>>
    /\ lastGet' = NoGet
    /\ UNCHANGED <<gone, variant, last_page, remote, local_storage, removed_keys,
                   rewritten>>
    /\ UNCHANGED <<wvars, rvars, ivars, bvars>>


\* ContractWrapper::execute, sudo, reply, ...: the call before has returned Ok
\* and its writes are in the contract's storage; the next entry point runs on
\* a DualStorage::new over that storage, whose removed_keys is empty
DualStorage_new ==
    /\ ~iter.active
    /\ removed_keys # {}
    /\ removed_keys' = {}
    /\ gone' = gone \cup removed_keys
    /\ rewritten' = {}
    /\ lastGet' = NoGet
    /\ UNCHANGED <<variant, last_page, remote, local_storage, iter, out, fetches>>
    /\ UNCHANGED <<wvars, rvars, ivars, bvars>>

\* no dual storage in use
DualOff ==
    /\ variant = "std"
    /\ last_page = "none"
    /\ remote = [k \in DKeys |-> <<>>]
    /\ local_storage = [k \in DKeys |-> NoVal]
    /\ removed_keys = {}
    /\ lastGet = NoGet
    /\ iter = NoIter
    /\ out = <<>>
    /\ fetches = <<>>
    /\ rewritten = {}
    /\ gone = {}

\* DualStorage::new over an empty local store, for any state of the remote chain
DualInit ==
    /\ variant \in {"std", "vm"}
    /\ last_page \in {"none", "empty"}
    /\ remote \in [DKeys -> {<<>>, RemoteVal}]
    /\ local_storage = [k \in DKeys |-> NoVal]
    /\ removed_keys = {}
    /\ lastGet = NoGet
    /\ iter = NoIter
    /\ out = <<>>
    /\ fetches = <<>>
    /\ rewritten = {}
    /\ gone = {}

\* a dual storage after any writes and removals, for any state of the remote
\* chain: a key removed locally is not held locally
DualAny ==
    /\ variant \in {"std", "vm"}
    /\ last_page \in {"none", "empty"}
    /\ remote \in [DKeys -> {<<>>, RemoteVal}]
    /\ local_storage \in [DKeys -> {NoVal, <<1>>}]
    /\ removed_keys \in SUBSET {k \in DKeys : local_storage[k] = NoVal}
    /\ lastGet = NoGet
    /\ iter = NoIter
    /\ out = <<>>
    /\ fetches = <<>>
    /\ rewritten = {}
    /\ gone = {}

\* ------------------------------------------------------ contract registry
MaxCodes == 1
MaxInstances == 2
MaxManaged == 1

Accounts == {"u1", "u2"}
Creators == {"u1"}
Salts == {<<7>>}
Labels == {"", "label"}
InvalidAddr == "not an address"

LOCAL_RUST_CODE_OFFSET == 10000000

\* the code ids and the contract the remote chain holds
RemoteCodes == {3}
RemoteAddr == <<"remote", 1>>
RemoteContracts ==
    [a \in {RemoteAddr} |-> [code_id |-> 3, creator |-> "u2", admin |-> Some("u1")]]

\* the code ids a message can name: invalid, stored locally, remote, unknown
CodeIds == {0, LOCAL_RUST_CODE_OFFSET + 1, 3, 4}

NoAddr == <<>>
NoCode == 0
ContractData(code_id, creator, admin) ==
    [code_id |-> code_id, creator |-> creator, admin |-> admin]
NoContractData == ContractData(NoCode, "", None)
UnknownAddr == <<"nobody">>
NoOp == [kind |-> "none", sender |-> "", addr |-> NoAddr, code_id |-> NoCode,
         salt |-> None, err |-> "none", ran |-> NoCode,
         known |-> FALSE, was_admin |-> FALSE, intact |-> TRUE, stored |-> NoCode,
         funds |-> 0]

\* Api::addr_validate
addr_validate(input) == input # InvalidAddr

\* WasmKeeper::store_code: the next identifier of the in-memory table
next_code_id == Cardinality(rust_codes) + 1 + LOCAL_RUST_CODE_OFFSET

\* WasmKeeper::code_data: the code id is at least 1 and is stored locally or
\* known to the remote chain
code_data(code_id) ==
    /\ code_id >= 1
    /\ code_id \in rust_codes \/ code_id \in RemoteCodes

\* the checksum generator: one checksum per code id
checksum(code_id) == <<"checksum", code_id>>

\* WasmKeeper::contract_code: the handler of a code id, local or distant
contract_code(code_id) == IF code_data(code_id) THEN Some(code_id) ELSE None

\* WasmKeeper::contract_data: the local record, else the remote chain's
contract_data(storage, address) ==
    IF address \in DOMAIN storage
    THEN [ok |-> TRUE, data |-> storage[address]]
    ELSE IF address \in DOMAIN RemoteContracts
    THEN [ok |-> TRUE, data |-> RemoteContracts[address]]
    ELSE [ok |-> FALSE, data |-> NoContractData]

\* WasmKeeper::save_contract
save_contract(storage, address, contract) ==
    [a \in DOMAIN storage \cup {address} |->
        IF a = address THEN contract ELSE storage[a]]

\* WasmKeeper::instance_count: the number of local contract records
instance_count(storage) == Cardinality(DOMAIN storage)

\* AddressGenerator::contract_address
contract_address(code_id, instance_id) == <<"contract", instance_id>>

\* AddressGenerator::predictable_contract_address
predictable_contract_address(code_id, instance_id, sum, creator, salt) ==
    <<"instantiate2", sum, creator, salt>>

RegisterResult(err, addr, storage) == [err |-> err, addr |-> addr, storage |-> storage]

\* a faulty register_contract that does not look for a contract at the address
register_contract_unchecked(storage, code_id, creator, admin, salt) ==
    LET instance_id == instance_count(storage)
        addr == IF salt.some
                THEN predictable_contract_address(code_id, instance_id, checksum(code_id),
                                                  creator, salt.v)
                ELSE contract_address(code_id, instance_id)
    IN  IF salt.some /\ ~code_data(code_id)
        THEN RegisterResult("code", NoAddr, storage)
        ELSE RegisterResult("none", addr,
                            save_contract(storage, addr, ContractData(code_id, creator, admin)))

\* a faulty register_contract that saves the record before it looks for a
\* contract at the address
register_contract_saving_first(storage, code_id, creator, admin, salt) ==
    LET instance_id == instance_count(storage)
        addr == IF salt.some
                THEN predictable_contract_address(code_id, instance_id, checksum(code_id),
                                                  creator, salt.v)
                ELSE contract_address(code_id, instance_id)
        saved == save_contract(storage, addr, ContractData(code_id, creator, admin))
    IN  IF salt.some /\ ~code_data(code_id)
        THEN RegisterResult("code", NoAddr, storage)
        ELSE IF contract_data(storage, addr).ok
        THEN RegisterResult("duplicate", addr, saved)
        ELSE RegisterResult("none", addr, saved)

\* WasmKeeper::register_contract
register_contract(storage, code_id, creator, admin, salt) ==
    LET instance_id == instance_count(storage)
        addr == IF salt.some
                THEN predictable_contract_address(code_id, instance_id, checksum(code_id),
                                                  creator, salt.v)
                ELSE contract_address(code_id, instance_id)
    IN  IF salt.some /\ ~code_data(code_id)
        THEN RegisterResult("code", NoAddr, storage)
        ELSE IF contract_data(storage, addr).ok
        THEN RegisterResult("duplicate", addr, storage)
        ELSE RegisterResult("none", addr,
                            save_contract(storage, addr, ContractData(code_id, creator, admin)))

\* the result of a wasm message: error, code whose entry point ran, storage left
WasmResult(err, ran, storage) == [err |-> err, ran |-> ran, storage |-> storage]

\* WasmKeeper::with_storage, its first two lines: the record is loaded and the
\* handler of its code id is looked up
contract_handler(storage, address) ==
    LET contract == contract_data(storage, address)
        handler == contract_code(contract.data.code_id)
    IN  IF ~contract.ok THEN [err |-> "no_contract", code |-> NoCode]
        ELSE IF ~handler.some THEN [err |-> "code", code |-> NoCode]
        ELSE [err |-> "none", code |-> handler.v]

\* WasmKeeper::call_instantiate: the instantiate entry point of the handler runs
call_instantiate(storage, address, fails) ==
    LET handler == contract_handler(storage, address)
    IN  IF handler.err # "none" THEN WasmResult(handler.err, NoCode, storage)
        ELSE IF fails THEN WasmResult("contract", handler.code, storage)
        ELSE WasmResult("none", handler.code, storage)

\* WasmKeeper::call_migrate: the migrate entry point of the handler runs
call_migrate(storage, address, fails) ==
    LET handler == contract_handler(storage, address)
    IN  IF handler.err # "none" THEN WasmResult(handler.err, NoCode, storage)
        ELSE IF fails THEN WasmResult("contract", handler.code, storage)
        ELSE WasmResult("none", handler.code, storage)

\* the coins of the accounts that send wasm messages: they hold none
Holdings == [a \in Accounts |-> 0]

\* WasmKeeper::send: nothing is sent for empty funds, else BankMsg::Send goes
\* through the router and fails when the sender holds less
cash_moved(sender, funds) == funds = 0 \/ Holdings[sender] >= funds

\* a faulty instantiate that goes on when the cash could not be moved
process_wasm_msg_instantiate_unpaid(storage, sender, admin, code_id, label, salt, funds, fails) ==
    LET reg == register_contract(storage, code_id, sender, admin, salt)
    IN  IF label = "" THEN [res |-> WasmResult("label", NoCode, storage), addr |-> NoAddr]
        ELSE IF reg.err # "none"
        THEN [res |-> WasmResult(reg.err, NoCode, reg.storage), addr |-> reg.addr]
        ELSE [res |-> call_instantiate(reg.storage, reg.addr, fails), addr |-> reg.addr]

\* WasmKeeper::process_wasm_msg_instantiate, without submessages: the label is
\* checked, the contract is registered, the cash is moved, the contract is called
process_wasm_msg_instantiate(storage, sender, admin, code_id, label, salt, funds, fails) ==
    LET reg == register_contract(storage, code_id, sender, admin, salt)
    IN  IF label = "" THEN [res |-> WasmResult("label", NoCode, storage), addr |-> NoAddr]
        ELSE IF reg.err # "none"
        THEN [res |-> WasmResult(reg.err, NoCode, reg.storage), addr |-> reg.addr]
        ELSE IF ~cash_moved(sender, funds)
        THEN [res |-> WasmResult("bank", NoCode, reg.storage), addr |-> reg.addr]
        ELSE [res |-> call_instantiate(reg.storage, reg.addr, fails), addr |-> reg.addr]

\* a faulty update_admin that lets anyone set the admin of a contract without one
update_admin_when_unset(storage, sender, contract_addr, new_admin) ==
    LET contract == contract_data(storage, contract_addr)
    IN  IF new_admin.some /\ ~addr_validate(new_admin.v)
        THEN WasmResult("address", NoCode, storage)
        ELSE IF ~contract.ok THEN WasmResult("no_contract", NoCode, storage)
        ELSE IF contract.data.admin.some /\ contract.data.admin # Some(sender)
        THEN WasmResult("permission", NoCode, storage)
        ELSE WasmResult("none", NoCode,
                        save_contract(storage, contract_addr,
                                      [contract.data EXCEPT !.admin = new_admin]))

\* WasmKeeper::update_admin, for UpdateAdmin and ClearAdmin
update_admin(storage, sender, contract_addr, new_admin) ==
    LET contract == contract_data(storage, contract_addr)
    IN  IF new_admin.some /\ ~addr_validate(new_admin.v)
        THEN WasmResult("address", NoCode, storage)
        ELSE IF ~contract.ok THEN WasmResult("no_contract", NoCode, storage)
        ELSE IF contract.data.admin # Some(sender)
        THEN WasmResult("permission", NoCode, storage)
        ELSE WasmResult("none", NoCode,
                        save_contract(storage, contract_addr,
                                      [contract.data EXCEPT !.admin = new_admin]))

\* a faulty migrate that runs the entry point before it records the code id
migrate_before_save(storage, sender, contract_addr, new_code_id, fails) ==
    LET contract == contract_data(storage, contract_addr)
        res == call_migrate(storage, contract_addr, fails)
    IN  IF ~contract.ok THEN WasmResult("no_contract", NoCode, storage)
        ELSE IF contract.data.admin # Some(sender)
        THEN WasmResult("permission", NoCode, storage)
        ELSE WasmResult(res.err, res.ran,
                        save_contract(storage, contract_addr,
                                      [contract.data EXCEPT !.code_id = new_code_id]))

\* WasmKeeper::execute_wasm, WasmMsg::Migrate, without submessages
migrate(storage, sender, contract_addr, new_code_id, fails) ==
    LET contract == contract_data(storage, contract_addr)
    IN  IF ~contract.ok THEN WasmResult("no_contract", NoCode, storage)
        ELSE IF contract.data.admin # Some(sender)
        THEN WasmResult("permission", NoCode, storage)
        ELSE call_migrate(save_contract(storage, contract_addr,
                                        [contract.data EXCEPT !.code_id = new_code_id]),
                          contract_addr, fails)

\* what a message found and left: the contract was known and the sender its
\* admin before, the storage is as before, the code id now recorded; a message
\* other than an instantiation carries no funds
Op(kind, sender, addr, code_id, salt, res) ==
    [kind |-> kind, sender |-> sender, addr |-> addr, code_id |-> code_id, salt |-> salt,
     err |-> res.err, ran |-> res.ran,
     known |-> contract_data(contracts, addr).ok,
     was_admin |-> contract_data(contracts, addr).data.admin = Some(sender),
     intact |-> res.storage = contracts,
     stored |-> contract_data(res.storage, addr).data.code_id,
     funds |-> 0]

\* the enclosing transaction keeps the storage of a message that succeeded
Committed(res) == IF res.err = "none" THEN res.storage ELSE contracts

\* the addresses a message of a sender can name
Targets(sender) ==
    DOMAIN contracts \cup {RemoteAddr} \cup (IF sender = "u1" THEN {UnknownAddr} ELSE {})

\* a code is stored
StoreCode ==
    /\ Cardinality(rust_codes) < MaxCodes
    /\ rust_codes' = rust_codes \cup {next_code_id}
    /\ lastOp' = NoOp
    /\ UNCHANGED <<contracts, assigned, reused>>
    /\ UNCHANGED <<wvars, dvars, ivars, bvars>>

\* WasmMsg::Instantiate and WasmMsg::Instantiate2, up to a number of instances
Instantiate(limit) ==
    /\ instance_count(contracts) < limit
    /\ \E sender \in Creators, admin \in {None, Some("u1")}, code_id \in CodeIds,
          label \in Labels, salt \in {None} \cup {Some(s) : s \in Salts}, fails \in BOOLEAN,
          funds \in 0..MaxFunds :
          \E done \in {process_wasm_msg_instantiate(contracts, sender, admin, code_id,
                                                     label, salt, funds, fails)} :
              /\ label = "" => (code_id = NoCode /\ admin = None /\ salt = None)
              /\ fails => done.res.ran # NoCode
              /\ funds > 0 => (label # "" /\ done.res.storage # contracts)
              /\ contracts' = Committed(done.res)
              /\ assigned' = IF done.res.err = "none" THEN assigned \cup {done.addr}
                              ELSE assigned
              /\ reused' = (reused \/ (done.res.err = "none" /\ done.addr \in assigned))
              /\ lastOp' = [Op("instantiate", sender, done.addr, code_id, salt, done.res)
                               EXCEPT !.funds = funds]
    /\ UNCHANGED rust_codes
    /\ UNCHANGED <<wvars, dvars, ivars, bvars>>

\* WasmMsg::UpdateAdmin
UpdateAdmin ==
    /\ \E sender \in Accounts, admin \in {"u1", InvalidAddr} :
          \E contract_addr \in Targets(sender) :
          \E res \in {update_admin(contracts, sender, contract_addr, Some(admin))} :
              /\ contracts' = Committed(res)
              /\ lastOp' = Op("update_admin", sender, contract_addr, NoCode, None, res)
    /\ UNCHANGED <<rust_codes, assigned, reused>>
    /\ UNCHANGED <<wvars, dvars, ivars, bvars>>

\* WasmMsg::ClearAdmin
ClearAdmin ==
    /\ \E sender \in Accounts :
          \E contract_addr \in Targets(sender) :
          \E res \in {update_admin(contracts, sender, contract_addr, None)} :
              /\ contracts' = Committed(res)
              /\ lastOp' = Op("clear_admin", sender, contract_addr, NoCode, None, res)
    /\ UNCHANGED <<rust_codes, assigned, reused>>
    /\ UNCHANGED <<wvars, dvars, ivars, bvars>>

\* WasmMsg::Migrate
Migrate ==
    /\ \E sender \in Accounts, new_code_id \in CodeIds, fails \in BOOLEAN :
          \E contract_addr \in Targets(sender) :
          \E res \in {migrate(contracts, sender, contract_addr, new_code_id, fails)} :
              /\ fails => res.ran # NoCode
              /\ contracts' = Committed(res)
              /\ lastOp' = Op("migrate", sender, contract_addr, new_code_id, None, res)
    /\ UNCHANGED <<rust_codes, assigned, reused>>
    /\ UNCHANGED <<wvars, dvars, ivars, bvars>>

RegInit ==
    /\ rust_codes = {}
    /\ contracts = <<>>
    /\ assigned = {}
    /\ reused = FALSE
    /\ lastOp = NoOp

\* -------------------------------------------------------------- ibc relay
\* Two chains, each an App with an IbcSimpleModule, and the relayer functions
\* of src/src/ibc/relayer that drive them (channel.rs, timeout.rs).  A relayer
\* function is a job: one relay or sudo call per step, each in a transaction
\* of the chain it is sent to.

\* connections and channels a chain may come to hold, packets it may send
MaxConnections == 2
MaxChannels == 2
MaxPackets == 2

Chains == {"A", "B"}
Other(chain) == IF chain = "A" THEN "B" ELSE "A"

\* what a module may do wrong in a step: return an error, return a response
\* without events, return the event without its last attribute
Faults == {"none", "error", "no_event", "no_attr"}

SEND_PACKET_EVENT == "send_packet"
RECEIVE_PACKET_EVENT == "recv_packet"
WRITE_ACK_EVENT == "write_acknowledgement"
ACK_PACKET_EVENT == "acknowledge_packet"
TIMEOUT_RECEIVE_PACKET_EVENT == "timeout_received_packet"
TIMEOUT_PACKET_EVENT == "timeout_packet"

\* IbcPacketRelayingMsg
CreateConnection(remote_chain_id, connection_id, counterparty_connection_id) ==
    [kind |-> "CreateConnection", remote_chain_id |-> remote_chain_id,
     connection_id |-> connection_id,
     counterparty_connection_id |-> counterparty_connection_id]
IbcEndpoint(port_id, channel_id) == [port_id |-> port_id, channel_id |-> channel_id]
OpenChannel(local_connection_id, local_port, version, counterparty_version, counterparty_endpoint) ==
    [kind |-> "OpenChannel", local_connection_id |-> local_connection_id,
     local_port |-> local_port, version |-> version,
     counterparty_version |-> counterparty_version,
     counterparty_endpoint |-> counterparty_endpoint]
ConnectChannel(port_id, channel_id, counterparty_version, counterparty_endpoint) ==
    [kind |-> "ConnectChannel", port_id |-> port_id, channel_id |-> channel_id,
     counterparty_version |-> counterparty_version,
     counterparty_endpoint |-> counterparty_endpoint]
Receive(packet) == [kind |-> "Receive", packet |-> packet]
Acknowledge(packet, ack) == [kind |-> "Acknowledge", packet |-> packet, ack |-> ack]
Timeout(packet) == [kind |-> "Timeout", packet |-> packet]

\* a chain: its IBC module's records and the bank's accounts the packets move
\* coins between (the sender's, the lock module's, the receiver's)
NoChain ==
    [connections |-> <<>>, channels |-> <<>>, sent |-> <<>>, received |-> {},
     owner |-> MaxPackets, locked |-> 0, recipient |-> 0]

IbcOk(chain, events, hook) ==
    [ok |-> TRUE, chain |-> chain, events |-> events, hook |-> hook]
IbcErr(chain) == [ok |-> FALSE, chain |-> chain, events |-> <<>>, hook |-> "none"]

Index(records, id) == {i \in 1..Len(records) : records[i].id = id}

\* IbcSimpleModule, CreateConnection: a new record that refers to the remote
\* chain, or the counterparty of the record named
ibc_create_connection(chain, msg) ==
    IF ~msg.connection_id.some
    THEN LET id == <<"connection", Len(chain.connections)>> IN
         IbcOk([chain EXCEPT !.connections =
                   Append(@, [id |-> id, chain_id |-> msg.remote_chain_id,
                              counterparty_connection_id |->
                                  msg.counterparty_connection_id])],
               <<Event("connection_open", <<Attr("connection_id", id)>>)>>, "none")
    ELSE IF Index(chain.connections, msg.connection_id.v) = {} THEN IbcErr(chain)
    ELSE LET i == CHOOSE i \in Index(chain.connections, msg.connection_id.v) : TRUE IN
         IbcOk([chain EXCEPT !.connections[i].counterparty_connection_id =
                   msg.counterparty_connection_id],
               <<Event("connection_open",
                       <<Attr("connection_id", msg.connection_id.v)>>)>>, "none")

\* IbcSimpleModule, OpenChannel: the channel gets the next id of the chain and
\* starts as Init, or as TryOpen when the counterparty has proposed a version;
\* the port's module may rewrite the version (ibc_channel_open)
ibc_open_channel(chain, msg, rewrite) ==
    IF Index(chain.connections, msg.local_connection_id) = {} THEN IbcErr(chain)
    ELSE LET id == <<"channel", Len(chain.channels)>>
             try == msg.counterparty_version.some
             version == IF rewrite THEN "rewritten" ELSE msg.version
         IN  IbcOk([chain EXCEPT !.channels =
                       Append(@, [id |-> id, port_id |-> msg.local_port,
                                  connection_id |-> msg.local_connection_id,
                                  state |-> IF try THEN "TryOpen" ELSE "Init",
                                  version |-> version,
                                  counterparty_endpoint |-> msg.counterparty_endpoint])],
                   <<Event(IF try THEN "channel_open_try" ELSE "channel_open_init",
                           <<Attr("port_id", msg.local_port),
                             Attr("connection_id", msg.local_connection_id),
                             Attr("version", version),
                             Attr("channel_id", id)>>)>>,
                   "ibc_channel_open")

\* IbcSimpleModule, ConnectChannel: the channel named goes from Init (the ack of
\* the handshake) or from TryOpen (its confirm) to Open
ibc_connect_channel(chain, msg) ==
    LET found == {i \in Index(chain.channels, msg.channel_id) :
                     /\ chain.channels[i].port_id = msg.port_id
                     /\ chain.channels[i].state \in {"Init", "TryOpen"}}
    IN  IF found = {} THEN IbcErr(chain)
        ELSE LET i == CHOOSE i \in found : TRUE IN
             IbcOk([chain EXCEPT !.channels[i].state = "Open",
                                 !.channels[i].counterparty_endpoint =
                                     msg.counterparty_endpoint,
                                 !.channels[i].version =
                                     IF msg.counterparty_version.some
                                     THEN msg.counterparty_version.v ELSE @],
                   <<Event(IF chain.channels[i].state = "Init"
                           THEN "channel_open_ack" ELSE "channel_open_confirm",
                           <<Attr("port_id", msg.port_id),
                             Attr("channel_id", msg.channel_id)>>)>>,
                   "ibc_channel_connect")

\* IbcPacketData as the source chain stores it; expired says that the packet's
\* timeout has passed on the destination by the time it is delivered
IbcPacketData(channel, sequence, expired) ==
    [src_channel_id |-> channel.id,
     dst_channel_id |-> channel.counterparty_endpoint.channel_id,
     sequence |-> sequence, expired |-> expired]

\* IbcSimpleModule, SendPacket of a bank transfer: the coin is locked and the
\* packet stored under the channel's next sequence
ibc_send_packet(chain, channel_id, expired) ==
    LET open == {i \in Index(chain.channels, channel_id) :
                    chain.channels[i].state = "Open"}
    IN  IF open = {} \/ chain.owner = 0 THEN IbcErr(chain)
        ELSE LET channel == chain.channels[CHOOSE i \in open : TRUE]
                 sequence == 1 + Cardinality({i \in 1..Len(chain.sent) :
                                 chain.sent[i].packet.src_channel_id = channel_id})
                 packet == IbcPacketData(channel, sequence, expired)
             IN  IbcOk([chain EXCEPT !.owner = @ - 1, !.locked = @ + 1,
                           !.sent = Append(@, [packet |-> packet, acked |-> FALSE,
                                               timed_out |-> FALSE])],
                       <<Event(SEND_PACKET_EVENT,
                               <<Attr("packet_sequence", sequence)>>)>>, "none")

Stored(chain, channel_id, sequence) ==
    {i \in 1..Len(chain.sent) :
        /\ chain.sent[i].packet.src_channel_id = channel_id
        /\ chain.sent[i].packet.sequence = sequence}

\* MockIbcQuery::SendPacket: the packet the chain stored, if any
ibc_query_send_packet(chain, channel_id, sequence) ==
    IF Stored(chain, channel_id, sequence) = {} THEN None
    ELSE Some(chain.sent[CHOOSE i \in Stored(chain, channel_id, sequence) : TRUE].packet)

\* MockIbcQuery::ConnectedChain: the connection's record, if any
ibc_query_connected_chain(chain, connection_id) ==
    IF Index(chain.connections, connection_id) = {} THEN None
    ELSE Some(chain.connections[CHOOSE i \in Index(chain.connections, connection_id) : TRUE])

\* BankKeeper as IbcModule, ibc_packet_receive: the receiver gets the coin
\* (unlocked or minted as a wrapped denom); no acknowledgement of its own
bank_ibc_packet_receive(chain) == [chain EXCEPT !.recipient = @ + 1]

\* a faulty timeout hook that leaves the coin with the lock module
bank_ibc_packet_timeout_keeping(chain) ==
    IF chain.locked = 0 THEN [ok |-> FALSE, chain |-> chain]
    ELSE [ok |-> TRUE, chain |-> chain]

\* BankKeeper as IbcModule, ibc_packet_timeout: the coin goes back from the lock
\* module to the sender; fails when nothing of the denom is locked
bank_ibc_packet_timeout(chain) ==
    IF chain.locked = 0 THEN [ok |-> FALSE, chain |-> chain]
    ELSE [ok |-> TRUE, chain |-> [chain EXCEPT !.locked = @ - 1, !.owner = @ + 1]]

PacketKey(packet) == <<packet.dst_channel_id, packet.sequence>>

\* IbcSimpleModule, Receive: over an open channel and once per packet; a packet
\* whose timeout has passed gets the timeout event and no hook, any other one
\* the hook and a written acknowledgement
ibc_receive(chain, msg) ==
    LET packet == msg.packet
        open == {i \in Index(chain.channels, packet.dst_channel_id) :
                    chain.channels[i].state = "Open"}
    IN  IF open = {} \/ PacketKey(packet) \in chain.received THEN IbcErr(chain)
        ELSE IF packet.expired
        THEN IbcOk([chain EXCEPT !.received = @ \cup {PacketKey(packet)}],
                   <<Event(TIMEOUT_RECEIVE_PACKET_EVENT,
                           <<Attr("packet_sequence", packet.sequence)>>)>>, "none")
        ELSE IbcOk(bank_ibc_packet_receive(
                       [chain EXCEPT !.received = @ \cup {PacketKey(packet)}]),
                   <<Event(RECEIVE_PACKET_EVENT,
                           <<Attr("packet_sequence", packet.sequence)>>),
                     Event(WRITE_ACK_EVENT,
                           <<Attr("packet_sequence", packet.sequence),
                             Attr("packet_ack_hex", <<"ack", packet.sequence>>)>>)>>,
                   "ibc_packet_receive")

\* IbcSimpleModule, Acknowledge: only for a stored packet that is neither
\* acknowledged nor timed out
ibc_acknowledge(chain, msg) ==
    LET at == Stored(chain, msg.packet.src_channel_id, msg.packet.sequence) IN
    IF at = {} THEN IbcErr(chain)
    ELSE LET i == CHOOSE i \in at : TRUE IN
         IF chain.sent[i].acked \/ chain.sent[i].timed_out THEN IbcErr(chain)
         ELSE IbcOk([chain EXCEPT !.sent[i].acked = TRUE],
                    <<Event(ACK_PACKET_EVENT,
                            <<Attr("packet_sequence", msg.packet.sequence)>>)>>,
                    "ibc_packet_ack")

\* the same without the check of the packet's status
ibc_timeout_unguarded(chain, msg) ==
    LET at == Stored(chain, msg.packet.src_channel_id, msg.packet.sequence) IN
    IF at = {} THEN IbcErr(chain)
    ELSE LET i == CHOOSE i \in at : TRUE
             hook == bank_ibc_packet_timeout([chain EXCEPT !.sent[i].timed_out = TRUE])
         IN  IF ~hook.ok THEN IbcErr(chain)
             ELSE IbcOk(hook.chain,
                        <<Event(TIMEOUT_PACKET_EVENT,
                                <<Attr("packet_sequence", msg.packet.sequence)>>)>>,
                        "ibc_packet_timeout")

\* IbcSimpleModule, Timeout: only for a stored packet that is neither
\* acknowledged nor timed out; the port's module refunds
ibc_timeout(chain, msg) ==
    LET at == Stored(chain, msg.packet.src_channel_id, msg.packet.sequence) IN
    IF at = {} THEN IbcErr(chain)
    ELSE LET i == CHOOSE i \in at : TRUE
             hook == bank_ibc_packet_timeout([chain EXCEPT !.sent[i].timed_out = TRUE])
         IN  IF chain.sent[i].acked \/ chain.sent[i].timed_out \/ ~hook.ok
             THEN IbcErr(chain)
             ELSE IbcOk(hook.chain,
                        <<Event(TIMEOUT_PACKET_EVENT,
                                <<Attr("packet_sequence", msg.packet.sequence)>>)>>,
                        "ibc_packet_timeout")

\* the response a faulty module returns in place of the events it should
FaultyResponse(events, fault) ==
    CASE fault = "no_event" -> <<>>
      [] fault = "no_attr" ->
            [i \in 1..Len(events) |->
                [events[i] EXCEPT !.attributes = SubSeq(@, 1, Len(@) - 1)]]
      [] OTHER -> events

\* IbcModule::sudo of the simple module
ibc_sudo(chain, msg, rewrite) ==
    CASE msg.kind = "CreateConnection" -> ibc_create_connection(chain, msg)
      [] msg.kind = "OpenChannel" -> ibc_open_channel(chain, msg, rewrite)
      [] msg.kind = "ConnectChannel" -> ibc_connect_channel(chain, msg)
      [] msg.kind = "Receive" -> ibc_receive(chain, msg)
      [] msg.kind = "Acknowledge" -> ibc_acknowledge(chain, msg)
      [] msg.kind = "Timeout" -> ibc_timeout(chain, msg)
      [] OTHER -> IbcErr(chain)

\* App::relay and App::sudo: the module's sudo in a transaction of the chain,
\* so that an error leaves the chain as it was
relay(chain, msg, fault, rewrite) ==
    LET res == ibc_sudo(chain, msg, rewrite) IN
    IF fault = "error" \/ ~res.ok THEN IbcErr(chain)
    ELSE IbcOk(res.chain, FaultyResponse(res.events, fault), res.hook)

RECURSIVE find_attr(_, _)
find_attr(attributes, attr_key) ==
    IF attributes = <<>> THEN None
    ELSE IF Head(attributes).key = attr_key THEN Some(Head(attributes).value)
    ELSE find_attr(Tail(attributes), attr_key)

\* the same, answering with an empty value where the attribute is missing
get_event_attr_value_defaulting(events, event_type, attr_key) ==
    LET at == {i \in 1..Len(events) :
                  /\ events[i].ty = event_type
                  /\ find_attr(events[i].attributes, attr_key).some}
    IN  IF at = {} THEN Some(<<>>)
        ELSE find_attr(events[CHOOSE i \in at : \A j \in at : i <= j].attributes, attr_key)

\* get_event_attr_value: the value of the first attribute of that key in the
\* first event of that type that has one, an error when there is none
get_event_attr_value(events, event_type, attr_key) ==
    LET at == {i \in 1..Len(events) :
                  /\ events[i].ty = event_type
                  /\ find_attr(events[i].attributes, attr_key).some}
    IN  IF at = {} THEN None
        ELSE find_attr(events[CHOOSE i \in at : \A j \in at : i <= j].attributes, attr_key)

\* ----------------------------------------------------------- relayer jobs
\* what a relayer function has read so far from the responses and the queries
NoEnv ==
    [src_connection |-> <<>>, dst_connection |-> <<>>, new_version |-> <<>>,
     src_channel |-> <<>>, dst_channel |-> <<>>, counterparty |-> <<>>,
     packet |-> <<>>, ack |-> <<>>]
NoArgs == [src_connection_id |-> <<>>, src_port |-> "", dst_port |-> "",
           version |-> "", channel_id |-> <<>>, sequence |-> 0]
NoJob == [kind |-> "none", src |-> "", dst |-> "", args |-> NoArgs, step |-> 0,
          env |-> NoEnv, calls |-> <<>>, pre |-> <<>>]
NoReturn == [kind |-> "none", src |-> "", dst |-> "", args |-> NoArgs, ok |-> FALSE,
             err |-> "none", env |-> NoEnv, calls |-> <<>>, pre |-> <<>>,
             value |-> <<>>]

Read(slot, event, key) == [slot |-> slot, event |-> event, key |-> key, unless |-> ""]
ReadUnless(slot, event, key, unless) ==
    [slot |-> slot, event |-> event, key |-> key, unless |-> unless]
RelayTo(app, msg, reads) == [op |-> "relay", app |-> app, msg |-> msg, reads |-> reads]
QueryOf(app, query, id, sequence, slot) ==
    [op |-> "query", app |-> app, query |-> query, id |-> id, sequence |-> sequence,
     slot |-> slot]

has_event(events, event_type) == \E i \in 1..Len(events) : events[i].ty = event_type

\* the same with the last CreateConnection not naming the counterparty
create_connection_unlinked(j) ==
    CASE j.step = 1 ->
            RelayTo(j.src, CreateConnection(j.dst, None, None),
                    <<Read("src_connection", "connection_open", "connection_id")>>)
      [] j.step = 2 ->
            RelayTo(j.dst, CreateConnection(j.src, None, Some(j.env.src_connection)),
                    <<Read("dst_connection", "connection_open", "connection_id")>>)
      [] OTHER ->
            RelayTo(j.src, CreateConnection(j.dst, Some(j.env.src_connection), None),
                    <<>>)

\* create_connection: three relays, to the source, the destination and the
\* source again, each built from the connection ids read so far
create_connection(j) ==
    CASE j.step = 1 ->
            RelayTo(j.src, CreateConnection(j.dst, None, None),
                    <<Read("src_connection", "connection_open", "connection_id")>>)
      [] j.step = 2 ->
            RelayTo(j.dst, CreateConnection(j.src, None, Some(j.env.src_connection)),
                    <<Read("dst_connection", "connection_open", "connection_id")>>)
      [] OTHER ->
            RelayTo(j.src, CreateConnection(j.dst, Some(j.env.src_connection),
                                            Some(j.env.dst_connection)),
                    <<>>)

\* the same with the last two relays sent to the other chain first
create_channel_crossed(j) ==
    CASE j.step = 1 ->
            RelayTo(j.src, OpenChannel(j.args.src_connection_id, j.args.src_port,
                                       j.args.version, None,
                                       IbcEndpoint(j.args.dst_port, <<>>)),
                    <<Read("new_version", "channel_open_init", "version"),
                      Read("src_channel", "channel_open_init", "channel_id")>>)
      [] j.step = 2 ->
            QueryOf(j.src, "ConnectedChain", j.args.src_connection_id, 0, "counterparty")
      [] j.step = 3 ->
            RelayTo(j.dst, OpenChannel(j.env.counterparty, j.args.dst_port,
                                       j.args.version, Some(j.env.new_version),
                                       IbcEndpoint(j.args.src_port, j.env.src_channel)),
                    <<Read("new_version", "channel_open_try", "version"),
                      Read("dst_channel", "channel_open_try", "channel_id")>>)
      [] j.step = 4 ->
            RelayTo(j.dst, ConnectChannel(j.args.dst_port, j.env.dst_channel,
                                          Some(j.env.new_version),
                                          IbcEndpoint(j.args.src_port, j.env.src_channel)),
                    <<>>)
      [] OTHER ->
            RelayTo(j.src, ConnectChannel(j.args.src_port, j.env.src_channel,
                                          Some(j.env.new_version),
                                          IbcEndpoint(j.args.dst_port, j.env.dst_channel)),
                    <<>>)

\* the same with the version read at init kept for the last two relays
create_channel_init_version(j) ==
    CASE j.step = 1 ->
            RelayTo(j.src, OpenChannel(j.args.src_connection_id, j.args.src_port,
                                       j.args.version, None,
                                       IbcEndpoint(j.args.dst_port, <<>>)),
                    <<Read("new_version", "channel_open_init", "version"),
                      Read("src_channel", "channel_open_init", "channel_id")>>)
      [] j.step = 2 ->
            QueryOf(j.src, "ConnectedChain", j.args.src_connection_id, 0, "counterparty")
      [] j.step = 3 ->
            RelayTo(j.dst, OpenChannel(j.env.counterparty, j.args.dst_port,
                                       j.args.version, Some(j.env.new_version),
                                       IbcEndpoint(j.args.src_port, j.env.src_channel)),
                    <<Read("dst_channel", "channel_open_try", "channel_id")>>)
      [] j.step = 4 ->
            RelayTo(j.src, ConnectChannel(j.args.src_port, j.env.src_channel,
                                          Some(j.env.new_version),
                                          IbcEndpoint(j.args.dst_port, j.env.dst_channel)),
                    <<>>)
      [] OTHER ->
            RelayTo(j.dst, ConnectChannel(j.args.dst_port, j.env.dst_channel,
                                          Some(j.env.new_version),
                                          IbcEndpoint(j.args.src_port, j.env.src_channel)),
                    <<>>)

\* create_channel: init on the source, the source's view of the connection,
\* try on the destination, ack on the source, confirm on the destination
create_channel(j) ==
    CASE j.step = 1 ->
            RelayTo(j.src, OpenChannel(j.args.src_connection_id, j.args.src_port,
                                       j.args.version, None,
                                       IbcEndpoint(j.args.dst_port, <<>>)),
                    <<Read("new_version", "channel_open_init", "version"),
                      Read("src_channel", "channel_open_init", "channel_id")>>)
      [] j.step = 2 ->
            QueryOf(j.src, "ConnectedChain", j.args.src_connection_id, 0, "counterparty")
      [] j.step = 3 ->
            RelayTo(j.dst, OpenChannel(j.env.counterparty, j.args.dst_port,
                                       j.args.version, Some(j.env.new_version),
                                       IbcEndpoint(j.args.src_port, j.env.src_channel)),
                    <<Read("new_version", "channel_open_try", "version"),
                      Read("dst_channel", "channel_open_try", "channel_id")>>)
      [] j.step = 4 ->
            RelayTo(j.src, ConnectChannel(j.args.src_port, j.env.src_channel,
                                          Some(j.env.new_version),
                                          IbcEndpoint(j.args.dst_port, j.env.dst_channel)),
                    <<>>)
      [] OTHER ->
            RelayTo(j.dst, ConnectChannel(j.args.dst_port, j.env.dst_channel,
                                          Some(j.env.new_version),
                                          IbcEndpoint(j.args.src_port, j.env.src_channel)),
                    <<>>)

\* the same with Timeout sent to the source before Receive to the destination
receive_and_timeout_packet_reversed(j) ==
    CASE j.step = 1 ->
            QueryOf(j.src, "SendPacket", j.args.channel_id, j.args.sequence, "packet")
      [] j.step = 2 ->
            RelayTo(j.src, Timeout(j.env.packet), <<>>)
      [] OTHER ->
            RelayTo(j.dst, Receive(j.env.packet),
                    <<Read("ack", WRITE_ACK_EVENT, "packet_ack_hex")>>)

\* receive_and_timeout_packet: the packet as the source stored it, Receive on
\* the destination with the acknowledgement it wrote, Timeout on the source
receive_and_timeout_packet(j) ==
    CASE j.step = 1 ->
            QueryOf(j.src, "SendPacket", j.args.channel_id, j.args.sequence, "packet")
      [] j.step = 2 ->
            RelayTo(j.dst, Receive(j.env.packet),
                    <<Read("ack", WRITE_ACK_EVENT, "packet_ack_hex")>>)
      [] OTHER ->
            RelayTo(j.src, Timeout(j.env.packet), <<>>)

\* the same delivering the packet to the destination first
timeout_packet_delivering(j) == receive_and_timeout_packet(j)

\* timeout_packet: the packet as the source stored it, then Timeout on the
\* source; the second app is not used
timeout_packet(j) ==
    CASE j.step = 1 ->
            QueryOf(j.src, "SendPacket", j.args.channel_id, j.args.sequence, "packet")
      [] OTHER ->
            RelayTo(j.src, Timeout(j.env.packet), <<>>)

\* relay_packet: Receive on the destination, then on the source Timeout if the
\* destination found the packet's timeout passed, Acknowledge otherwise
relay_packet(j) ==
    CASE j.step = 1 ->
            QueryOf(j.src, "SendPacket", j.args.channel_id, j.args.sequence, "packet")
      [] j.step = 2 ->
            RelayTo(j.dst, Receive(j.env.packet),
                    <<ReadUnless("ack", WRITE_ACK_EVENT, "packet_ack_hex",
                                 TIMEOUT_RECEIVE_PACKET_EVENT)>>)
      [] OTHER ->
            IF has_event(j.calls[Len(j.calls)].events, TIMEOUT_RECEIVE_PACKET_EVENT)
            THEN RelayTo(j.src, Timeout(j.env.packet), <<>>)
            ELSE RelayTo(j.src, Acknowledge(j.env.packet, j.env.ack), <<>>)

Steps(kind) ==
    CASE kind = "create_connection" -> 3
      [] kind = "create_channel" -> 5
      [] kind = "timeout_packet" -> 2
      [] OTHER -> 3

Instruction(j) ==
    CASE j.kind = "create_connection" -> create_connection(j)
      [] j.kind = "create_channel" -> create_channel(j)
      [] j.kind = "timeout_packet" -> timeout_packet(j)
      [] j.kind = "receive_and_timeout_packet" -> receive_and_timeout_packet(j)
      [] OTHER -> relay_packet(j)

\* the attribute values a relayer function takes out of a response, in the
\* order it asks for them; the first one missing ends the function
RECURSIVE ReadAll(_, _, _)
ReadAll(env, reads, events) ==
    IF reads = <<>> THEN [ok |-> TRUE, env |-> env]
    ELSE IF Head(reads).unless # "" /\ has_event(events, Head(reads).unless)
    THEN ReadAll(env, Tail(reads), events)
    ELSE \* get_event_attr_value(..)?
         LET v == get_event_attr_value(events, Head(reads).event, Head(reads).key) IN
         IF ~v.some THEN [ok |-> FALSE, env |-> env]
         ELSE ReadAll([env EXCEPT ![Head(reads).slot] = v.v], Tail(reads), events)

\* App::ibc_query as the relayer functions use it: the stored packet, or the
\* connection's counterparty, whose absence makes create_channel panic
ibc_query(chain, ins) ==
    IF ins.query = "SendPacket"
    THEN LET q == ibc_query_send_packet(chain, ins.id, ins.sequence) IN
         IF q.some THEN [err |-> "none", v |-> q.v] ELSE [err |-> "query", v |-> <<>>]
    ELSE LET q == ibc_query_connected_chain(chain, ins.id) IN
         IF ~q.some THEN [err |-> "query", v |-> <<>>]
         ELSE IF ~q.v.counterparty_connection_id.some THEN [err |-> "panic", v |-> <<>>]
         ELSE [err |-> "none", v |-> q.v.counterparty_connection_id.v]

\* one step of a relayer function: the query or the relay, then the reads
Outcome(cs, j, ins, fault, rewrite) ==
    IF ins.op = "query"
    THEN LET q == ibc_query(cs[ins.app], ins) IN
         [ok |-> q.err = "none", err |-> q.err, cs |-> cs, calls |-> j.calls,
          env |-> IF q.err = "none" THEN [j.env EXCEPT ![ins.slot] = q.v] ELSE j.env]
    ELSE LET res == relay(cs[ins.app], ins.msg, fault, rewrite)
             read == ReadAll(j.env, ins.reads, res.events)
             entry == [app |-> ins.app, kind |-> ins.msg.kind, msg |-> ins.msg,
                       ok |-> res.ok, hook |-> res.hook, fault |-> fault,
                       events |-> res.events]
         IN  [ok |-> res.ok /\ read.ok,
              err |-> IF ~res.ok THEN "relay" ELSE IF ~read.ok THEN "event" ELSE "none",
              cs |-> [cs EXCEPT ![ins.app] = res.chain],
              calls |-> Append(j.calls, entry),
              env |-> read.env]

hex_decode(hex) == IF Len(hex) = 2 THEN <<"bytes", hex[2]>> ELSE <<>>

\* the same with the responses of the two chains exchanged
ChannelCreationResult_exchanged(init, try, ack, confirm, src_channel, dst_channel) ==
    [init |-> try, try |-> init, ack |-> confirm, confirm |-> ack,
     src_channel |-> dst_channel, dst_channel |-> src_channel]

ChannelCreationResult(init, try, ack, confirm, src_channel, dst_channel) ==
    [init |-> init, try |-> try, ack |-> ack, confirm |-> confirm,
     src_channel |-> src_channel, dst_channel |-> dst_channel]

\* what the relayer function returns in its Ok
Value(kind, env, calls) ==
    CASE kind = "create_connection" -> <<env.src_connection, env.dst_connection>>
      [] kind = "create_channel" ->
            ChannelCreationResult(calls[1].events, calls[2].events, calls[3].events,
                                  calls[4].events, env.src_channel, env.dst_channel)
      [] kind = "timeout_packet" -> calls[1].events
      [] kind = "receive_and_timeout_packet" ->
            <<calls[1].events, calls[2].events, hex_decode(env.ack)>>
      [] OTHER -> [receive_tx |-> calls[1].events, result |-> calls[2].events]

Return(j, o) ==
    [kind |-> j.kind, src |-> j.src, dst |-> j.dst, args |-> j.args, ok |-> o.ok,
     err |-> o.err, env |-> o.env, calls |-> o.calls, pre |-> j.pre,
     value |-> IF o.ok THEN Value(j.kind, o.env, o.calls) ELSE <<>>]

ConnectionIds == {<<"connection", n>> : n \in 0..(MaxConnections - 1)}
ChannelIds == {<<"channel", n>> : n \in 0..(MaxChannels - 1)}

Start(kind, src, args) ==
    /\ job = NoJob
    /\ job' = [kind |-> kind, src |-> src, dst |-> Other(src), args |-> args,
               step |-> 1, env |-> NoEnv, calls |-> <<>>, pre |-> chains]
    /\ lastJob' = NoReturn
    /\ UNCHANGED chains
    /\ UNCHANGED <<wvars, dvars, rvars, bvars>>

\* the chain a handshake is started from
Initiators == {"A"}

RelayerCreateConnection ==
    \E src \in Initiators :
        /\ \A c \in Chains : Len(chains[c].connections) < MaxConnections
        /\ Start("create_connection", src, NoArgs)

RelayerCreateChannel ==
    \E src \in Initiators, id \in ConnectionIds :
        /\ \A c \in Chains : Len(chains[c].channels) < MaxChannels
        /\ Start("create_channel", src,
                 [NoArgs EXCEPT !.src_connection_id = id, !.src_port = "transfer",
                                !.dst_port = "transfer", !.version = "ics20-1"])

PacketArgs(id, sequence) == [NoArgs EXCEPT !.channel_id = id, !.sequence = sequence]

RelayerTimeoutPacket ==
    \E src \in Chains, id \in ChannelIds, sequence \in 1..MaxPackets :
        Start("timeout_packet", src, PacketArgs(id, sequence))

RelayerReceiveAndTimeoutPacket ==
    \E src \in Chains, id \in ChannelIds, sequence \in 1..MaxPackets :
        Start("receive_and_timeout_packet", src, PacketArgs(id, sequence))

RelayerRelayPacket ==
    \E src \in Chains, id \in ChannelIds, sequence \in 1..MaxPackets :
        Start("relay_packet", src, PacketArgs(id, sequence))

\* the chain whose users send coins to the other one
Senders == {"A"}

\* a bank transfer over a channel, in a transaction of the sending chain
AppSendPacket ==
    /\ job = NoJob
    /\ \E src \in Senders, id \in ChannelIds, expired \in BOOLEAN :
        /\ Len(chains[src].sent) < MaxPackets
        /\ \E res \in {ibc_send_packet(chains[src], id, expired)} :
            /\ res.ok
            /\ chains' = [chains EXCEPT ![src] = res.chain]
    /\ lastJob' = NoReturn
    /\ UNCHANGED job
    /\ UNCHANGED <<wvars, dvars, rvars, bvars>>

\* the port's module answers a channel's opening with a version of its own or
\* with none
Rewrites(ins) ==
    IF ins.op = "relay" /\ ins.msg.kind = "OpenChannel" THEN BOOLEAN ELSE {FALSE}

\* the next step of the relayer function in progress; a failed step, or the
\* last one, returns
RelayerStep ==
    /\ job # NoJob
    /\ \E fault \in Faults, rewrite \in Rewrites(Instruction(job)) :
        \E o \in {Outcome(chains, job, Instruction(job), fault, rewrite)} :
            /\ chains' = o.cs
            /\ IF o.ok /\ job.step < Steps(job.kind)
               THEN /\ job' = [job EXCEPT !.step = @ + 1, !.env = o.env,
                                          !.calls = o.calls]
                    /\ UNCHANGED lastJob
               ELSE /\ job' = NoJob
                    /\ lastJob' = Return(job, o)
    /\ UNCHANGED <<wvars, dvars, rvars, bvars>>

\* the chains after the relayer function has run to its end without a fault
RECURSIVE Run(_, _)
Run(cs, j) ==
    LET o == Outcome(cs, j, Instruction(j), "none", FALSE) IN
    IF j.step = Steps(j.kind) THEN o.cs
    ELSE Run(o.cs, [j EXCEPT !.step = @ + 1, !.env = o.env, !.calls = o.calls])

Unlinked == [c \in Chains |-> NoChain]
Established ==
    Run(Run(Unlinked, [NoJob EXCEPT !.kind = "create_connection", !.src = "A",
                                    !.dst = "B", !.step = 1]),
        [NoJob EXCEPT !.kind = "create_channel", !.src = "A", !.dst = "B", !.step = 1,
                      !.args = [NoArgs EXCEPT !.src_connection_id = <<"connection", 0>>,
                                              !.src_port = "transfer",
                                              !.dst_port = "transfer",
                                              !.version = "ics20-1"]])

IbcInit == chains = Unlinked /\ job = NoJob /\ lastJob = NoReturn
IbcLinked == chains = Established /\ job = NoJob /\ lastJob = NoReturn

\* ------------------------------------------------------------------- bank
\* BankKeeper (bank.rs): balances of coins by account, moved by BankMsg::Send
\* and BankMsg::Burn, created by BankSudo::Mint, and moved or created by the
\* IBC hooks of the transfer port.

\* the coins of one denomination that BankSudo::Mint and the packets bring in
MaxSupply == 2

\* a denomination is the list of the parts that '/' separates in its name
NativeDenoms == {<<"ufund">>, <<"uatom">>}
IbcChannels == {"channel-0", "channel-1"}

\* wrap_ibc_denom: format!("ibc/{}/{}", channel_id, denom)
wrap_ibc_denom(channel_id, denom) == <<"ibc", channel_id>> \o denom

BankDenoms ==
    NativeDenoms \cup {wrap_ibc_denom(c, d) : c \in IbcChannels, d \in NativeDenoms}

IBC_LOCK_MODULE_ADDRESS == "ibc_bank_lock_module"
Holders == {"owner", "recipient"}
BankAccounts == Holders \cup {IBC_LOCK_MODULE_ADDRESS}

Coin(denom, amount) == [denom |-> denom, amount |-> amount]

\* cosmwasm_std::coins
coins(amount, denom) == <<Coin(denom, amount)>>

\* the coin lists of a message: no coin, one coin, or one coin of each of the
\* native denominations
CoinLists ==
    {<<>>}
    \cup {<<Coin(d, n)>> : d \in NativeDenoms, n \in 0..MaxSupply}
    \cup {<<Coin(<<"ufund">>, n1), Coin(<<"uatom">>, n2)>> :
             n1 \in 0..MaxSupply, n2 \in 0..MaxSupply}

BankResult(ok, storage) == [ok |-> ok, storage |-> storage]

\* a faulty normalize_amount that accepts a list with no coin left
normalize_amount_unchecked(amount) ==
    [ok |-> TRUE, v |-> SelectSeq(amount, LAMBDA x : x.amount # 0)]

\* BankKeeper::normalize_amount: the coins of amount zero are dropped, and a
\* list with no coin left is an error
normalize_amount(amount) ==
    LET res == SelectSeq(amount, LAMBDA x : x.amount # 0)
    IN  IF res = <<>> THEN [ok |-> FALSE, v |-> <<>>] ELSE [ok |-> TRUE, v |-> res]

\* NativeBalance + NativeBalance: coin by coin
RECURSIVE add_coins(_, _)
add_coins(b, amount) ==
    IF amount = <<>> THEN b
    ELSE add_coins([b EXCEPT ![Head(amount).denom] = @ + Head(amount).amount],
                   Tail(amount))

\* NativeBalance - Vec<Coin>: coin by coin, an error when a coin is not held or
\* less of it is held
RECURSIVE sub_coins(_, _)
sub_coins(b, amount) ==
    IF amount = <<>> THEN [ok |-> TRUE, v |-> b]
    ELSE IF b[Head(amount).denom] = 0 \/ b[Head(amount).denom] < Head(amount).amount
    THEN [ok |-> FALSE, v |-> b]
    ELSE sub_coins([b EXCEPT ![Head(amount).denom] = @ - Head(amount).amount],
                   Tail(amount))

\* BankKeeper::mint
mint(bank_storage, to_address, amount) ==
    LET normal == normalize_amount(amount)
    IN  IF ~normal.ok THEN BankResult(FALSE, bank_storage)
        ELSE BankResult(TRUE, [bank_storage EXCEPT ![to_address] = add_coins(@, normal.v)])

\* BankKeeper::burn
burn(bank_storage, from_address, amount) ==
    LET normal == normalize_amount(amount)
        a == sub_coins(bank_storage[from_address], normal.v)
    IN  IF ~normal.ok \/ ~a.ok THEN BankResult(FALSE, bank_storage)
        ELSE BankResult(TRUE, [bank_storage EXCEPT ![from_address] = a.v])

\* BankKeeper::send: burn, then mint
bank_send(bank_storage, from_address, to_address, amount) ==
    LET burnt == burn(bank_storage, from_address, amount)
    IN  IF ~burnt.ok THEN burnt ELSE mint(burnt.storage, to_address, amount)

\* the transaction of the call: the bank's writes are kept when it returns Ok
bank_committed(res) == IF res.ok THEN res.storage ELSE balances

\* BankKeeper::get_supply
get_supply(bank_storage, denom) ==
    bank_storage["owner"][denom] + bank_storage["recipient"][denom]
        + bank_storage[IBC_LOCK_MODULE_ADDRESS][denom]

\* the coins of the wrapped denominations, all together
RECURSIVE wrapped_supply(_, _)
wrapped_supply(bank_storage, denoms) ==
    IF denoms = {} THEN 0
    ELSE LET d == CHOOSE x \in denoms : TRUE
         IN  get_supply(bank_storage, d) + wrapped_supply(bank_storage, denoms \ {d})

NoBank ==
    [kind |-> "none", ok |-> TRUE, panicked |-> FALSE, sender |-> "", to |-> "",
     amount |-> <<>>, channel |-> "", paid |-> "none", pre |-> <<>>, left |-> <<>>]

\* what a bank call was given and did: the balances before it, and the ones
\* its handler left behind when it returned
BankOp(kind, sender, to, amount, res) ==
    [NoBank EXCEPT !.kind = kind, !.ok = res.ok, !.sender = sender, !.to = to,
                   !.amount = amount, !.pre = balances, !.left = res.storage]

\* BankSudo::Mint
BankMint ==
    /\ \E to_address \in Holders, amount \in CoinLists :
          \E res \in {mint(balances, to_address, amount)} :
              /\ \A d \in NativeDenoms : get_supply(res.storage, d) <= MaxSupply
              /\ balances' = bank_committed(res)
              /\ lastBank' = BankOp("mint", "", to_address, amount, res)
    /\ UNCHANGED sent_through
    /\ UNCHANGED <<wvars, dvars, rvars, ivars>>

\* BankMsg::Send
BankSend ==
    /\ \E sender \in Holders, amount \in CoinLists :
          \E to_address \in Holders \ {sender} :
          \E res \in {bank_send(balances, sender, to_address, amount)} :
              /\ balances' = bank_committed(res)
              /\ lastBank' = BankOp("send", sender, to_address, amount, res)
    /\ UNCHANGED sent_through
    /\ UNCHANGED <<wvars, dvars, rvars, ivars>>

\* BankMsg::Burn
BankBurn ==
    /\ \E sender \in Holders, amount \in CoinLists :
          \E res \in {burn(balances, sender, amount)} :
              /\ balances' = bank_committed(res)
              /\ lastBank' = BankOp("burn", sender, "", amount, res)
    /\ UNCHANGED sent_through
    /\ UNCHANGED <<wvars, dvars, rvars, ivars>>

\* IbcMsg::Transfer on the sending chain: the coins go to the lock module,
\* and the packet leaves through the channel
ibc_transfer(bank_storage, sender, amount) ==
    bank_send(bank_storage, sender, IBC_LOCK_MODULE_ADDRESS, amount)

IbcTransfer ==
    /\ \E sender \in {"owner"}, channel_id \in IbcChannels, denom \in NativeDenoms,
          n \in 1..MaxSupply :
          \E res \in {ibc_transfer(balances, sender, coins(n, denom))} :
              /\ balances' = bank_committed(res)
              /\ sent_through' = IF res.ok THEN sent_through \cup {<<channel_id, denom>>}
                                 ELSE sent_through
              /\ lastBank' = [BankOp("transfer", sender, IBC_LOCK_MODULE_ADDRESS,
                                     coins(n, denom), res)
                                EXCEPT !.channel = channel_id]
    /\ UNCHANGED <<wvars, dvars, rvars, ivars>>

Ics20Packet(denom, amount, receiver) ==
    [denom |-> denom, amount |-> amount, receiver |-> receiver]

ReceiveResult(ok, panicked, paid, storage) ==
    [ok |-> ok, panicked |-> panicked, paid |-> paid, storage |-> storage]

\* BankKeeper::ibc_packet_receive: when the lock module holds coins of the
\* packet's denomination they are sent from it to the receiver (the assert
\* panics when it holds less than the packet's amount); else the receiver is
\* minted the denomination wrapped with the destination channel
ibc_packet_receive(bank_storage, dest_channel_id, packet) ==
    LET locked_amount == bank_storage[IBC_LOCK_MODULE_ADDRESS][packet.denom]
        sent == bank_send(bank_storage, IBC_LOCK_MODULE_ADDRESS, packet.receiver,
                          coins(packet.amount, packet.denom))
        minted == mint(bank_storage, packet.receiver,
                       coins(packet.amount, wrap_ibc_denom(dest_channel_id, packet.denom)))
    IN  IF locked_amount # 0
        THEN IF locked_amount < packet.amount
             THEN ReceiveResult(FALSE, TRUE, "none", bank_storage)
             ELSE ReceiveResult(sent.ok, FALSE, IF sent.ok THEN "locked" ELSE "none",
                                sent.storage)
        ELSE ReceiveResult(minted.ok, FALSE, IF minted.ok THEN "minted" ELSE "none",
                           minted.storage)

\* a transfer packet arrives over a channel
IbcPacketReceive ==
    /\ \E dest_channel_id \in IbcChannels, denom \in NativeDenoms, n \in 0..MaxSupply,
          receiver \in {"recipient"} :
          \E res \in {ibc_packet_receive(balances, dest_channel_id,
                                         Ics20Packet(denom, n, receiver))} :
              /\ wrapped_supply(res.storage, BankDenoms \ NativeDenoms) <= MaxSupply
              /\ balances' = bank_committed(res)
              /\ lastBank' = [BankOp("ibc_packet_receive", "", receiver,
                                     coins(n, denom), res)
                                EXCEPT !.channel = dest_channel_id,
                                       !.panicked = res.panicked,
                                       !.paid = res.paid]
    /\ UNCHANGED sent_through
    /\ UNCHANGED <<wvars, dvars, rvars, ivars>>

\* a bank in which the owner holds coins of one denomination
BankFunded ==
    /\ balances = [a \in BankAccounts |->
                      [d \in BankDenoms |->
                          IF a = "owner" /\ d = <<"ufund">> THEN MaxSupply ELSE 0]]
    /\ sent_through = {}
    /\ lastBank = NoBank

\* a bank that holds no coins
BankInit ==
    /\ balances = [a \in BankAccounts |-> [d \in BankDenoms |-> 0]]
    /\ sent_through = {}
    /\ lastBank = NoBank

\* ------------------------------------------------------- initial states
EmptyStore ==
    [c \in Contracts \cup {"bank"} |->
        IF c = "bank"
        THEN [a \in Users \cup Contracts |-> IF a \in Users THEN MaxFunds ELSE 0]
        ELSE [k \in SKeys |-> NoVal]]

AppInit ==
    /\ layers = <<EmptyStore>>
    /\ stack = <<>>
    /\ pc = "idle"
    /\ call = NoCall
    /\ ret = NoRes
    /\ last = NoRes
    /\ ninv = 0
    /\ nemit = 0
    /\ subs = <<>>
    /\ lastInv = NoInv
    /\ undone = {}

Init == AppInit /\ DualOff /\ RegInit /\ IbcInit /\ BankInit

Engine ==
    \/ AppExecute
    \/ AppSudo
    \/ execute_submsg_call
    \/ execute_submsg_ok
    \/ execute_submsg_err
    \/ execute_submsg_replied
    \/ execute_submsg_reply_failed
    \/ process_response_done
    \/ process_response_err
    \/ AppReturn

\* the contracts write and fail in every way, their responses are plain or
\* faulty, and a submessage has a Reply for both outcomes or for none (the
\* transaction of a submessage is handled the same under every policy)
NextAtomic ==
    \/ call_entry_point(WriteOps, {PlainDecor}, {ReservedDecor}, {FALSE},
                        {"Never", "Always"})
    \/ Engine

SpecAtomic == Init /\ [][NextAtomic]_vars

\* the contracts return data, attributes and events; they do not write
NextReply ==
    \/ call_entry_point({NoWrites}, {PlainDecor}, {}, BOOLEAN, ReplyOn)
    \/ Engine

SpecReply == Init /\ [][NextReply]_vars

\* the contracts write and decorate their responses, faulty decorations
\* included; a failing submessage is handled by Reply
NextVerify ==
    \/ call_entry_point({NoWrites, SetAll}, {PaddedDecor}, BadDecors,
                        {FALSE}, {"Error"})
    \/ Engine

SpecVerify == Init /\ [][NextVerify]_vars

\* the contracts return events, with or without attributes; every submessage
\* has a Reply
NextEvents ==
    \/ call_entry_point({NoWrites}, EventDecors, {}, {FALSE}, {"Always"})
    \/ Engine

SpecEvents == Init /\ [][NextEvents]_vars

\* the contracts write and fail, and a submessage is sent under any of the four
\* reply policies
NextReplyError ==
    \/ call_entry_point({NoWrites, SetAll}, {PlainDecor}, {}, {FALSE}, ReplyOn)
    \/ Engine

SpecReplyError == Init /\ [][NextReplyError]_vars

\* the contracts write, and send messages to other contracts and to modules
\* that have no handler; a failing message is handled by Reply or by nobody
NextModules ==
    \/ entry_point({NoWrites, SetAll}, {PlainDecor}, {}, {FALSE}, {"Never", "Error"},
                   Contracts \cup Modules)
    \/ router_module
    \/ AppModule
    \/ Engine

SpecModules == Init /\ [][NextModules]_vars

\* the contracts write, then query their own key or their own coins; a
\* submessage that succeeds has a Reply or not
NextSnapshot ==
    \/ entry_point_querying({NoWrites, SetAll}, {PlainDecor}, {}, {FALSE},
                            {"Never", "Success"}, Contracts, Queries)
    \/ AppExecuteFunds
    \/ Engine

SpecSnapshot == Init /\ [][NextSnapshot]_vars

\* point reads and writes on a dual storage
NextDualGet ==
    \/ Get
    \/ Set
    \/ Remove

InitDualGet == AppInit /\ DualInit /\ RegInit /\ IbcInit /\ BankInit

SpecDualGet == InitDualGet /\ [][NextDualGet]_vars

\* point reads and writes of a contract over several entry-point calls
NextDualCalls ==
    \/ Get
    \/ Set
    \/ Remove
    \/ DualStorage_new

SpecDualCalls == InitDualGet /\ [][NextDualCalls]_vars

\* range iterations over a dual storage
NextDualRange ==
    \/ Range
    \/ IterNext
    \/ IterDrop

InitDualRange == AppInit /\ DualAny /\ RegInit /\ IbcInit /\ BankInit

SpecDualRange == InitDualRange /\ [][NextDualRange]_vars

\* codes and instances, next to a contract of the remote chain
NextInstances ==
    \/ StoreCode
    \/ Instantiate(MaxInstances)
    \/ ClearAdmin

SpecInstances == Init /\ [][NextInstances]_vars

\* the admin and the code of an instance
NextAdmin ==
    \/ StoreCode
    \/ Instantiate(MaxManaged)
    \/ UpdateAdmin
    \/ ClearAdmin
    \/ Migrate

SpecAdmin == Init /\ [][NextAdmin]_vars

\* the handshakes of two chains that start without a connection
NextHandshake ==
    \/ RelayerCreateConnection
    \/ RelayerCreateChannel
    \/ RelayerStep

SpecHandshake == Init /\ [][NextHandshake]_vars

\* packets over the channel of two chains whose handshakes are done
InitPackets == AppInit /\ DualOff /\ RegInit /\ IbcLinked /\ BankInit

NextPackets ==
    \/ AppSendPacket
    \/ RelayerRelayPacket
    \/ RelayerTimeoutPacket
    \/ RelayerReceiveAndTimeoutPacket
    \/ RelayerStep

SpecPackets == InitPackets /\ [][NextPackets]_vars

\* coins minted, sent and burnt
NextBank ==
    \/ BankMint
    \/ BankSend
    \/ BankBurn

SpecBank == Init /\ [][NextBank]_vars

\* coins that leave through the channels of a chain and packets that arrive
InitBankIbc == AppInit /\ DualOff /\ RegInit /\ IbcInit /\ BankFunded

NextBankIbc ==
    \/ IbcTransfer
    \/ IbcPacketReceive

SpecBankIbc == InitBankIbc /\ [][NextBankIbc]_vars

\* ------------------------------------------------- properties: lifecycle
\* an error is being returned to the frame that holds a transaction
FailedCall == pc = "ret" /\ ~ret.ok /\ Top(stack).kind \in {"S", "T"}

\* C1: when a call made through the app, or anything it triggered in a
\* transaction of its own, returns an error, every key has afterwards the value
\* it had before that call
C1_Atomic == [][FailedCall => View' = Top(stack).pre]_vars

\* C1, its case: a top-level call has failed after every key of every contract
\* had been written
C1_Witness == pc = "idle" /\ ~last.ok /\ undone = Contracts \X SKeys

Sub(u) == subs[u]
SubIds == 1..Len(subs)
Siblings(u, v) == u < v /\ Sub(u).parent = Sub(v).parent

\* the frame that emitted the submessage of the innermost frame
Emitter == stack[Len(stack) - 1]

C2_Counts ==
    \A u \in SubIds :
        /\ Sub(u).nreply <= 1
        /\ (Sub(u).status # "exec" /\ ~Sub(u).ok)
              => Sub(u).nreply = IF Sub(u).reply_on \in {"Error", "Always"} THEN 1 ELSE 0

C2_NoLater ==
    \A u, v \in SubIds :
        (Siblings(u, v) /\ ~Sub(u).ok)
            => Sub(u).reply_on \in {"Error", "Always"} /\ Sub(u).rep = "ok"

C2_Success ==
    (/\ pc = "idle"
     /\ \E u \in SubIds : ~Sub(u).ok
     /\ \A u \in SubIds : /\ Sub(u).ok \/ Sub(u).reply_on \in {"Error", "Always"}
                          /\ Sub(u).rep # "err")
        => last.ok

C2_Dispatch ==
    (pc = "ret" /\ ~ret.ok /\ Top(stack).kind = "S") =>
        IF Top(stack).msg.reply_on \in {"Error", "Always"}
        THEN /\ pc' = "enter"
             /\ call'.entry = "reply"
             /\ call'.contract = Emitter.contract
             /\ call'.reply.id = Top(stack).msg.id
             /\ ~call'.reply.ok
             /\ call'.reply.err = DebugText(ret.err)
        ELSE /\ pc' = "ret"
             /\ ret' = ret
             /\ stack' = Pop(stack)

\* the error a parent hands up is the one it received, under the context that
\* Wasm::execute adds for a parent that was itself executed
C2_Up ==
    (pc = "ret" /\ ~ret.ok /\ Top(stack).kind = "P") =>
        /\ pc' = "ret"
        /\ ~ret'.ok
        /\ ret'.err.kind = ret.err.kind
        /\ ret'.err.inv = ret.err.inv
        /\ ret'.err.ctx \in {ret.err.ctx,
                             Append(ret.err.ctx, <<Top(stack).sender, Top(stack).contract>>)}
        /\ stack' = Pop(stack)

C2_GoesOn ==
    (pc = "ret" /\ ret.ok /\ Top(stack).kind = "R" /\ Top(stack).mode = "err") =>
        /\ pc' = "loop"
        /\ Top(stack').kind = "P"
        /\ Top(stack').inv = Emitter.inv
        /\ Top(stack').msgs = Emitter.msgs

\* C2: a failing submessage under Error or Always has the emitter's Reply called
\* exactly once with the text of the error, and when that Reply succeeds the
\* parent goes on with its submessages and the call returns success; under Never
\* or Success no Reply is called, the parent returns that error and none of its
\* later submessages is executed
C2_FailingSubmsg ==
    /\ [](C2_Counts /\ C2_NoLater /\ C2_Success)
    /\ [][C2_Dispatch /\ C2_Up /\ C2_GoesOn]_vars

\* C2, its case: a call has succeeded although a submessage sent under Error
\* failed, the Reply having been called once
C2_Witness ==
    /\ pc = "idle"
    /\ last.ok
    /\ \E u \in SubIds : /\ ~Sub(u).ok
                         /\ Sub(u).reply_on = "Error"
                         /\ Sub(u).nreply = 1
                         /\ Sub(u).rep = "ok"

C3_Counts ==
    \A u \in SubIds :
        (Sub(u).status # "exec" /\ Sub(u).ok)
            => Sub(u).nreply = IF Sub(u).reply_on \in {"Success", "Always"} THEN 1 ELSE 0

C3_Dispatch ==
    (pc = "ret" /\ ret.ok /\ Top(stack).kind = "S") =>
        IF Top(stack).msg.reply_on \in {"Success", "Always"}
        THEN /\ pc' = "enter"
             /\ call'.entry = "reply"
             /\ call'.contract = Emitter.contract
             /\ call'.reply = [id |-> Top(stack).msg.id, ok |-> TRUE,
                               events |-> ret.events, data |-> ret.data,
                               err |-> DebugText(NoErr)]
        ELSE /\ pc' = "loop"
             /\ call' = call

\* C3: a succeeding submessage has the emitter's Reply called exactly once under
\* Success or Always, with the id of the submessage and the events and the data
\* it returned, and has no Reply called under Never or Error
C3_SucceedingSubmsg == []C3_Counts /\ [][C3_Dispatch]_vars

\* C3, its case: the Reply of the second submessage is about to run, with the
\* events and the data of the submessage
C3_Witness ==
    /\ pc = "enter"
    /\ call.entry = "reply"
    /\ call.reply.ok
    /\ call.reply.id = 2
    /\ call.reply.data.some
    /\ call.reply.events # <<>>
    /\ Sub(Top(stack).uid).reply_on = "Success"
    /\ Sub(Top(stack).uid).nreply = 1

InTransaction == {i \in 1..Len(stack) : stack[i].kind \in {"S", "T"}}

C4_Order ==
    /\ \A u \in SubIds : Sub(u).pos = Sub(u).idx
    /\ \A u, v \in SubIds : Siblings(u, v) => Sub(u).idx < Sub(v).idx /\ Sub(u).status = "done"
    /\ Len(layers) = 1 + Cardinality(InTransaction)

C4_Discards ==
    (pc = "ret" /\ ~ret.ok /\ Top(stack).kind = "S"
        /\ Top(stack).msg.reply_on \in {"Error", "Always"})
        => View' = Top(stack).pre /\ Len(layers') = Len(layers) - 1

C4_Keeps ==
    (pc = "ret" /\ ret.ok /\ Top(stack).kind = "S")
        => View' = View /\ Len(layers') = Len(layers) - 1

C4_GoesOn ==
    (pc = "ret" /\ ret.ok /\ Top(stack).kind = "R")
        => View' = View /\ pc' = "loop" /\ Top(stack').msgs = Emitter.msgs

\* C4: the submessages of a response run in the order of the list, one at a
\* time with its Reply, each in a transaction of its own; a failure that Reply
\* handles takes the store back to what it was when that submessage started,
\* and the parent goes on with the submessages that follow
C4_InOrder == []C4_Order /\ [][C4_Discards /\ C4_Keeps /\ C4_GoesOn]_vars

\* C4, its case: a call has succeeded in which a submessage lost its writes and
\* the next one of the same response ran and succeeded
C4_Witness ==
    /\ pc = "idle"
    /\ last.ok
    /\ \E u, v \in SubIds : /\ Siblings(u, v)
                            /\ ~Sub(u).ok
                            /\ Sub(u).dropped > 0
                            /\ Sub(v).ok

RECURSIVE LastSome(_)
LastSome(ds) ==
    IF ds = <<>> THEN NoData
    ELSE IF ds[Len(ds)].some THEN ds[Len(ds)] ELSE LastSome(Pop(ds))

\* the data a response is due to return given what the Replies returned
Due(f) == OrData(LastSome(f.replyData), f.own)

C5_Fold ==
    \A i \in 1..Len(stack) :
        stack[i].kind = "P" =>
            /\ stack[i].data = Due(stack[i])
            /\ stack[i].data.some
                  => \A j \in 1..Len(stack[i].subData) : stack[i].subData[j] # stack[i].data

C5_Returns ==
    (pc = "loop" /\ Top(stack).kind = "P" /\ Top(stack).msgs = <<>>) =>
        /\ ret'.ok
        /\ ret'.data = IF Top(stack).entry = "execute"
                       THEN execute_response(Due(Top(stack)))
                       ELSE Due(Top(stack))

\* C5: a call returns the data of the last of its submessages whose Reply
\* returned data, and its entry point's own data when there is none; what a
\* submessage's own execution returned is never the data of the parent
C5_Data == []C5_Fold /\ [][C5_Returns]_vars

\* C5, its case: an entry point that returned data is about to return, its two
\* submessages returned data and so did the Reply of each
C5_Witness ==
    /\ pc = "loop"
    /\ Top(stack).kind = "P"
    /\ Top(stack).msgs = <<>>
    /\ Top(stack).own.some
    /\ Len(Top(stack).replyData) = 2
    /\ \A j \in 1..2 : Top(stack).replyData[j].some /\ Top(stack).subData[j].some

AllAttributes(inv) ==
    {inv.attributes[i] : i \in 1..Len(inv.attributes)}
    \cup UNION {{inv.events[j].attributes[i] : i \in 1..Len(inv.events[j].attributes)} :
                j \in 1..Len(inv.events)}

Faulty(inv) ==
    \/ \E a \in AllAttributes(inv) :
          \/ trim(a.key) = <<>>
          \/ trim(a.value) = <<>>
          \/ a.key # <<>> /\ Head(a.key) = "_"
    \/ \E j \in 1..Len(inv.events) : Len(trim(inv.events[j].ty)) < 2

C6_Rejected ==
    (lastInv.result = "ok" /\ Faulty(lastInv))
        => pc = "ret" /\ ~ret.ok /\ ret.err.kind \in VerifyKinds

C6_NothingKept ==
    (FailedCall /\ ret.err.kind \in VerifyKinds) => View' = Top(stack).pre

\* C6: a response with an attribute whose trimmed key or value is empty, with
\* an attribute key that starts with '_', or with an event type of fewer than 2
\* characters once trimmed makes the call fail, and the store is taken back to
\* what it was before the call
C6_Verified == []C6_Rejected /\ [][C6_NothingKept]_vars

\* C6, its case: a call has failed on an event type that is too short, and the
\* writes it had made were dropped
C6_Witness ==
    /\ pc = "idle"
    /\ ~last.ok
    /\ last.err.kind = "event_type_too_short"
    /\ undone # {}

\* ---------------------------------------------- properties: dual storage
\* C7: a point read of a key that is held locally returns the value last
\* written locally, whatever the remote chain holds for that key, also when the
\* key had been removed before it was written
C7_LocalShadows ==
    (lastGet.op = "get" /\ local_storage[lastGet.key] # NoVal)
        => lastGet.value = local_storage[lastGet.key]

\* C7, its case: a key that the remote chain holds was removed, then written,
\* then read, and the value read is the local one
C7_Witness ==
    /\ lastGet.op = "get"
    /\ lastGet.key \in rewritten
    /\ remote[lastGet.key] = RemoteVal
    /\ lastGet.value \in LocalVals

\* C8: a point read of a key that is removed locally returns absent and sends no
\* remote query; a remote query is sent only for a key neither held nor removed
\* locally
C8_RemovedStaysAbsent ==
    lastGet.op = "get" =>
        /\ lastGet.key \in removed_keys => (lastGet.value = NoVal /\ ~lastGet.queried)
        /\ lastGet.queried => (/\ local_storage[lastGet.key] = NoVal
                               /\ lastGet.key \notin removed_keys)

\* C8, its case: a removed key that the remote chain holds has been read as
\* absent, with no query sent
C8_Witness ==
    /\ lastGet.op = "get"
    /\ lastGet.key \in removed_keys
    /\ remote[lastGet.key] = RemoteVal
    /\ lastGet.value = NoVal
    /\ ~lastGet.queried

\* C9: a range iteration never yields a key that is removed locally
C9_NoRemovedKey == \A i \in 1..Len(out) : out[i].key \notin removed_keys

\* the keys inside the bounds of the iterator, in the order of the store
InRange(k) ==
    /\ iter.distant_iter.start.some => ~LexLess(k, iter.distant_iter.start.v)
    /\ iter.distant_iter.end.some => LexLess(k, iter.distant_iter.end.v)

LocalKeys == {k \in DKeys : local_storage[k] # NoVal}
RemoteKeys == {k \in DKeys : remote[k] # <<>>}

Due10 == Ordered({k \in LocalKeys \cup RemoteKeys : InRange(k)}, iter.distant_iter.reverse)

\* C10: when no key is both local and remote, a range iteration yields the keys
\* of both sets that lie inside the bounds, each once, in increasing order when
\* ascending and in decreasing order when descending
C10_Merge ==
    (/\ iter.active
     /\ ~iter.failed
     /\ LocalKeys \cap RemoteKeys = {}
     /\ removed_keys \cap RemoteKeys = {})
        => /\ Len(out) <= Len(Due10)
           /\ \A i \in 1..Len(out) : out[i].key = Due10[i]
           /\ iter.ended => Len(out) = Len(Due10)

\* the records a range iteration has yielded for a key
Yielded(k) == {i \in 1..Len(out) : out[i].key = k}

\* C11: a key held both locally and by the remote chain is yielded by a range
\* iteration once, with the local value, ascending and descending
C11_TieLocalWins ==
    (iter.active /\ ~iter.failed) =>
        \A k \in LocalKeys \cap RemoteKeys :
            /\ Cardinality(Yielded(k)) <= 1
            /\ \A i \in Yielded(k) : out[i].value = local_storage[k]
            /\ (iter.ended /\ InRange(k)) => Cardinality(Yielded(k)) = 1

\* both sides of the merge hold a record, so the next step compares their keys
BothPending ==
    /\ iter.active
    /\ iter.local_iter # <<>>
    /\ iter.distant_iter.position < Len(iter.distant_iter.data)

\* key1 < key2 once the shorter one is padded with zero bytes
PaddedLess(key1, key2) == get_key_bigint(key1, key2)[1] < get_key_bigint(key1, key2)[2]

\* C12: the merge takes the remote record before the local one according to the
\* comparison of the two keys as big-endian integers of one length, the shorter
\* key padded with zero bytes, as the bounds filter compares them
C12_PaddedMerge ==
    [][(BothPending /\ Len(out') = Len(out) + 1) =>
          ((out'[Len(out')].src = "remote")
             = (PaddedLess(Head(iter.local_iter).key,
                           iter.distant_iter.data[iter.distant_iter.position + 1].key)
                  = iter.distant_iter.reverse))]_vars

\* C13: a failed remote page fetch makes the call of next that sent it report an
\* error, instead of a record or the end of the iteration
C13_FetchErrorReported ==
    [][(iter.active /\ Len(fetches') = Len(fetches) + 1 /\ fetches'[Len(fetches')].failed)
          => iter'.result = "error"]_vars

\* a point read of a key that is neither held nor removed locally
ReadThrough == /\ lastGet.op = "get"
               /\ local_storage[lastGet.key] = NoVal
               /\ lastGet.key \notin removed_keys

\* C14: a point read of a key neither held nor removed locally raises no error; it
\* returns the remote value when the query succeeds with non-empty data, and
\* absent when the query fails or its data is empty
C14_BestEffortRead ==
    ReadThrough =>
        /\ lastGet.queried
        /\ ~lastGet.error
        /\ lastGet.found = (~lastGet.failed /\ remote[lastGet.key] # <<>>)
        /\ lastGet.value = (IF lastGet.found THEN remote[lastGet.key] ELSE NoVal)
        /\ lastGet.raw = (IF lastGet.failed THEN <<>> ELSE remote[lastGet.key])

\* C14, its case: the remote chain holds the key, the query fails, the read
\* returns absent and no error
C14_Witness ==
    /\ ReadThrough
    /\ lastGet.failed
    /\ remote[lastGet.key] # <<>>
    /\ ~lastGet.found
    /\ ~lastGet.error
    /\ lastGet.raw = <<>>

\* C15: every request of a range iteration asks for at most 5 records, is sent when
\* all fetched remote records are consumed, and follows an answer that carried
\* a continuation key
C15_LazyPaging ==
    \A i \in 1..Len(fetches) :
        /\ fetches[i].limit <= 5
        /\ fetches[i].pending = 0
        /\ i > 1 => /\ fetches[i - 1].next.some
                    /\ fetches[i - 1].next.v # <<>>

\* ------------------------------------------------- properties: registry
\* C16: no successful instantiation returns an address that an earlier one
\* returned, and every address returned still holds its own record
C16_UniqueAddresses ==
    /\ ~reused
    /\ assigned \subseteq DOMAIN contracts
    /\ DOMAIN contracts \subseteq assigned \cup {RemoteAddr}

\* C16, its case: a second instantiation without salt of the same code by the same
\* creator has succeeded, at another address than the first
C16_Witness ==
    /\ lastOp.kind = "instantiate" /\ lastOp.err = "none" /\ ~lastOp.salt.some
    /\ \E a \in assigned \ {lastOp.addr} :
          /\ a[1] = "contract"
          /\ contracts[a].code_id = lastOp.code_id
          /\ contracts[a].creator = lastOp.sender

\* a salted instantiation has derived an address that holds a contract
SaltedAgain == lastOp.kind = "instantiate" /\ lastOp.salt.some /\ lastOp.known

\* C17: a salted instantiation deriving the address of an earlier one fails with
\* the duplicate-address error, runs no code and leaves the storage as it was
C17_DuplicateSalted ==
    SaltedAgain =>
        /\ lastOp.addr \in assigned
        /\ lastOp.addr = predictable_contract_address(lastOp.code_id, 0,
                             checksum(lastOp.code_id), lastOp.sender, lastOp.salt.v)
        /\ lastOp.err = "duplicate"
        /\ lastOp.ran = NoCode
        /\ lastOp.intact

\* C17, its case: the same creator, code and salt a second time
C17_Witness ==
    /\ SaltedAgain
    /\ lastOp.err = "duplicate"
    /\ contracts[lastOp.addr].creator = lastOp.sender
    /\ contracts[lastOp.addr].code_id = lastOp.code_id

\* an admin message for a known contract, sent by another than its admin
ByNonAdmin == /\ lastOp.kind \in {"update_admin", "clear_admin", "migrate"}
              /\ lastOp.known
              /\ ~lastOp.was_admin

\* C18, as stated: an admin message of a non-admin fails with the permission
\* error, runs no code and leaves the record as it was
C18_PermissionError ==
    ByNonAdmin => /\ lastOp.err = "permission"
                  /\ lastOp.ran = NoCode
                  /\ lastOp.intact

\* C18, amended: an admin message of a non-admin fails, with the permission error
\* unless it is an UpdateAdmin whose new admin is no valid address, runs no code
\* and leaves the record as it was
C18_NonAdminFails ==
    ByNonAdmin => /\ \/ lastOp.err = "permission"
                     \/ lastOp.kind = "update_admin" /\ lastOp.err = "address"
                  /\ lastOp.ran = NoCode
                  /\ lastOp.intact

\* C18, its case: a Migrate for a contract without admin is refused
C18_Witness ==
    /\ ByNonAdmin
    /\ lastOp.kind = "migrate"
    /\ contract_data(contracts, lastOp.addr).data.admin = None
    /\ lastOp.err = "permission"

\* a Migrate for a known contract, sent by its admin
ByAdmin == lastOp.kind = "migrate" /\ lastOp.known /\ lastOp.was_admin

\* C19: a Migrate of the admin records the new code id whether that code exists or
\* not; the entry point that runs is the new code's; the code is missed at the
\* lookup of the entry point and nowhere else; the record stays at its address
C19_MigrateNewCode ==
    ByAdmin =>
        /\ lastOp.stored = lastOp.code_id
        /\ code_data(lastOp.code_id) => (lastOp.ran = lastOp.code_id /\ lastOp.err # "code")
        /\ ~code_data(lastOp.code_id) => (lastOp.ran = NoCode /\ lastOp.err = "code")
        /\ contract_data(contracts, lastOp.addr).ok
        /\ lastOp.err = "none" => /\ lastOp.addr \in DOMAIN contracts
                                  /\ contracts[lastOp.addr].code_id = lastOp.code_id
        /\ DOMAIN contracts \subseteq assigned \cup {RemoteAddr}

\* C19, its case: the admin migrates to a code id nobody holds; the id is recorded
\* and the lookup of the entry point fails
C19_Witness ==
    /\ ByAdmin
    /\ lastOp.code_id >= 1
    /\ ~code_data(lastOp.code_id)
    /\ lastOp.stored = lastOp.code_id
    /\ lastOp.err = "code"

\* --------------------------------------------------- properties: events
\* the events an entry point's call starts with: its own event with the contract
\* address, the "wasm" event when there are attributes, the contract's events
OwnEvents(events, entry, contract, response) ==
    LET a == IF response.attributes # <<>> THEN 1 ELSE 0
        n == Len(response.events)
        address == Attr(<<"_", "contract_address">>, <<contract>>)
    IN  /\ Len(events) = 1 + a + n
        /\ events[1].ty = <<entry>>
        /\ events[1].attributes[1] = address
        /\ a = 1 => /\ events[2].ty = <<"wasm">>
                    /\ events[2].attributes = <<address>> \o response.attributes
        /\ \A i \in 1..n :
              /\ events[1 + a + i].ty = <<"wasm-">> \o response.events[i].ty
              /\ events[1 + a + i].attributes = <<address>> \o response.events[i].attributes

\* an entry point has just returned a response that was accepted
Entered == /\ pc = "loop" /\ lastInv.result = "ok"
           /\ stack # <<>> /\ Top(stack).kind = "P" /\ Top(stack).inv = ninv

C20_Own ==
    Entered => OwnEvents(Top(stack).events, lastInv.entry, lastInv.contract, lastInv)

\* execute_submsg hands the result of a submessage to process_response
Handing == pc = "ret" /\ ret.ok /\ Top(stack).kind \in {"S", "R"} /\ pc' = "loop"

\* what the submessage contributes: its own events, then the events of its Reply
SubEvents ==
    IF Top(stack).kind = "R" /\ Top(stack).mode = "ok"
    THEN Top(stack).r.events \o ret.events
    ELSE ret.events

C20_Append ==
    \A i \in 1..Len(stack') :
        (i <= Len(stack) /\ stack[i].kind = "P" /\ stack'[i].kind = "P"
           /\ stack[i].inv = stack'[i].inv) =>
            stack'[i].events = IF Handing /\ i = Len(stack')
                               THEN stack[i].events \o SubEvents
                               ELSE stack[i].events

C20_Return ==
    /\ (pc = "loop" /\ pc' = "ret") => (ret'.ok /\ ret'.events = Top(stack).events)
    /\ (pc = "ret" /\ pc' = "idle") => last' = ret

\* C20: a successful call's events are the entry point's event with the contract
\* address, the "wasm" event exactly when the contract returned attributes, the
\* contract's events in their order with the "wasm-" prefix and the address
\* first, then for each submessage in turn its events and those of its Reply
C20_EventOrder == []C20_Own /\ [][C20_Append /\ C20_Return]_vars

\* C20, its case: a call has returned an entry-point event, a "wasm" event, two
\* prefixed events, and after them a submessage's events and its Reply's
C20_Witness ==
    /\ pc = "idle" /\ last.ok
    /\ Len(last.events) >= 6
    /\ last.events[2].ty = <<"wasm">>
    /\ last.events[3].ty = <<"wasm-", "a", "b">>
    /\ last.events[4].ty = <<"wasm-", "c", "d">>
    /\ last.events[5].ty = <<"execute">>
    /\ \E j \in 6..Len(last.events) : last.events[j].ty = <<"reply">>

\* -------------------------------------------------- properties: modules
\* the router is handing a message to a module that has no handler for it
Routed == pc = "enter" /\ call.contract \in Modules

\* the error of such a module is being returned to the submessage it came from
Refused == /\ pc = "ret"
           /\ Top(stack).kind = "S"
           /\ Top(stack).msg.target \in Modules

\* C21, the module: it returns an error that names the module and the message,
\* and the storage it was given is as it was
C21_Refuses ==
    Routed => /\ ~ret'.ok
              /\ ret'.err.module = call.contract
              /\ ret'.err.msg = Payload
              /\ layers' = layers

\* C21, a message sent by a contract: with no Reply for the error, the error
\* goes to the contract's call and what the submessage's transaction holds is
\* dropped; with a Reply for it, Reply is given the failure
C21_GoesUp ==
    Refused =>
        /\ ~ret.ok
        /\ ret.err.module = Top(stack).msg.target
        /\ View' = Top(stack).pre
        /\ IF reply_on_err(Top(stack).msg.reply_on)
           THEN pc' = "enter" /\ call'.entry = "reply" /\ ~call'.reply.ok
           ELSE pc' = "ret" /\ ret' = ret /\ Top(stack').kind = "P"

\* C21, the contract's call: an error that reaches it ends it with that error
C21_Fails ==
    (pc = "ret" /\ ~ret.ok /\ Top(stack).kind = "P" /\ ret.err.kind = "unexpected")
        => /\ stack' = Pop(stack)
           /\ pc' = "ret"
           /\ ~ret'.ok
           /\ ret'.err.module = ret.err.module
           /\ ret'.err.msg = ret.err.msg

\* C21, the call made through the app: it fails when the module was called
\* directly, and when the contract called sent the module a message that has
\* no Reply for the error; the storage is then as it was before the call
C21_Whole ==
    (pc = "ret" /\ Top(stack).kind = "T")
        => /\ (\E u \in SubIds : /\ Sub(u).parent = 1
                                 /\ Sub(u).target \in Modules
                                 /\ ~reply_on_err(Sub(u).reply_on)) => ~ret.ok
           /\ (ninv = 0 => ~ret.ok /\ ret.err.kind = "unexpected")
           /\ ~ret.ok => (View' = Top(stack).pre /\ ~last'.ok)

Entering == pc = "enter" /\ lastInv'.asked # NoQuery
Queried == lastInv.asked # NoQuery

\* C22, when it is assembled: the snapshot is the storage as the entry point
\* finds it, before any of its writes
C22_Before == Entering => lastInv'.snapshot = View

\* C22, the funds: the snapshot of a call made with funds shows them on the
\* contract's account and no longer on the sender's
C22_Funds ==
    (Entering /\ ninv = 0 /\ stack[1].funds > 0) =>
        /\ lastInv'.snapshot["bank"][call.contract]
              = stack[1].pre["bank"][call.contract] + stack[1].funds
        /\ lastInv'.snapshot["bank"][call.sender]
              = stack[1].pre["bank"][call.sender] - stack[1].funds

\* C22, the merge before Reply: what the submessage's transaction held when it
\* returned Ok is what the parent's storage holds when Reply is entered
C22_Merged ==
    (pc = "ret" /\ ret.ok /\ Top(stack).kind = "S" /\ pc' = "enter")
        => (call'.entry = "reply" /\ View' = View)

\* C22, the queries: the answer is the snapshot's value, whatever the entry
\* point wrote before it asked
C22_Reads ==
    Queried =>
        lastInv.read = IF lastInv.asked = "raw"
                       THEN lastInv.snapshot[lastInv.contract]["k"]
                       ELSE <<lastInv.snapshot["bank"][lastInv.contract]>>

Returned(kind) == job = NoJob /\ lastJob.kind = kind
Phases(calls) == [i \in 1..Len(calls) |-> <<calls[i].app, calls[i].kind>>]
Prefix(s, t) == Len(s) <= Len(t) /\ s = SubSeq(t, 1, Len(s))
ConnectionOf(chain, id) ==
    chains[chain].connections[CHOOSE i \in Index(chains[chain].connections, id) : TRUE]
ChannelState(chain, id) ==
    IF Index(chains[chain].channels, id) = {} THEN "None"
    ELSE chains[chain].channels[CHOOSE i \in Index(chains[chain].channels, id) : TRUE].state
Clean(calls) == \A i \in 1..Len(calls) : calls[i].fault = "none"

C23_Plan(j) ==
    <<<<j.src, "CreateConnection">>, <<j.dst, "CreateConnection">>,
      <<j.src, "CreateConnection">>>>
C23_Order ==
    /\ job.kind = "create_connection" => Prefix(Phases(job.calls), C23_Plan(job))
    /\ lastJob.kind = "create_connection" =>
          /\ Prefix(Phases(lastJob.calls), C23_Plan(lastJob))
          /\ lastJob.ok => Len(lastJob.calls) = 3
C23_Linked ==
    Returned("create_connection") /\ lastJob.ok =>
        LET a == lastJob.value[1]
            b == lastJob.value[2]
        IN  /\ Index(lastJob.pre[lastJob.src].connections, a) = {}
            /\ Index(lastJob.pre[lastJob.dst].connections, b) = {}
            /\ Index(chains[lastJob.src].connections, a) # {}
            /\ Index(chains[lastJob.dst].connections, b) # {}
            /\ ConnectionOf(lastJob.src, a).counterparty_connection_id = Some(b)
            /\ ConnectionOf(lastJob.dst, b).counterparty_connection_id = Some(a)
            /\ ConnectionOf(lastJob.src, a).chain_id = lastJob.dst
            /\ ConnectionOf(lastJob.dst, b).chain_id = lastJob.src

\* C23: create_connection relays exactly three times, to chain A, chain B and
\* chain A in that order (a failed call a prefix of that); after it succeeds
\* the connection it made on A records B's connection id as its counterparty
\* and B's records A's, and the pair (A's id, B's id) is what it returns.
C23_Connection == C23_Order /\ C23_Linked

\* C23 witness: a successful create_connection whose two ids differ, one chain
\* having kept the record of an earlier call that failed
C23_Witness ==
    /\ Returned("create_connection") /\ lastJob.ok
    /\ lastJob.value[1] # lastJob.value[2]
    /\ ConnectionOf(lastJob.src, lastJob.value[1]).counterparty_connection_id
          = Some(lastJob.value[2])

C24_Plan(j) ==
    <<<<j.src, "OpenChannel">>, <<j.dst, "OpenChannel">>,
      <<j.src, "ConnectChannel">>, <<j.dst, "ConnectChannel">>>>
C24_Ordered(j) ==
    /\ Prefix(Phases(j.calls), C24_Plan(j))
    /\ \A i \in 1..(Len(j.calls) - 1) : j.calls[i].ok
    /\ Len(j.calls) >= 1 => ~j.calls[1].msg.counterparty_version.some
    /\ Len(j.calls) >= 2 =>
          /\ j.calls[2].msg.counterparty_version.some
          /\ j.calls[2].msg.counterparty_endpoint.channel_id = j.env.src_channel
    /\ Len(j.calls) >= 3 =>
          j.calls[3].msg.counterparty_endpoint.channel_id = j.env.dst_channel
C24_Order ==
    /\ job.kind = "create_channel" => C24_Ordered(job)
    /\ lastJob.kind = "create_channel" => C24_Ordered(lastJob)
C24_Phase ==
    job.kind = "create_channel" =>
        /\ job.step \in {2, 3} => ChannelState(job.src, job.env.src_channel) = "Init"
        /\ job.step = 4 => /\ ChannelState(job.src, job.env.src_channel) = "Init"
                           /\ ChannelState(job.dst, job.env.dst_channel) = "TryOpen"
        /\ job.step = 5 => /\ ChannelState(job.src, job.env.src_channel) = "Open"
                           /\ ChannelState(job.dst, job.env.dst_channel) = "TryOpen"
C24_Open ==
    Returned("create_channel") /\ lastJob.ok =>
        /\ Len(lastJob.calls) = 4
        /\ ChannelState(lastJob.src, lastJob.value.src_channel) = "Open"
        /\ ChannelState(lastJob.dst, lastJob.value.dst_channel) = "Open"
Rank(state) == CASE state = "Init" -> 1 [] state = "TryOpen" -> 2 [] OTHER -> 3
C24_Forward ==
    \A c \in Chains : \A i \in 1..Len(chains[c].channels) :
        /\ i <= Len(chains'[c].channels)
        /\ chains'[c].channels[i].id = chains[c].channels[i].id
        /\ Rank(chains'[c].channels[i].state) >= Rank(chains[c].channels[i].state)
        /\ chains[c].channels[i].state = "Init" =>
              chains'[c].channels[i].state # "TryOpen"

\* C24: create_channel relays in the order Init to chain A, TryOpen to chain B,
\* ConnectAck to chain A, ConnectConfirm to chain B, a step being sent only
\* after the one before it succeeded; A's channel is Init until its ack opens
\* it and B's TryOpen until its confirm opens it, no channel of either chain
\* ever moves back, and both are Open when the call returns successfully.
C24_Handshake == [](C24_Order /\ C24_Phase /\ C24_Open) /\ [][C24_Forward]_vars

\* C24 witness: a create_channel that returned Ok after four relays, the
\* destination's module having rewritten the version
C24_Witness ==
    /\ Returned("create_channel") /\ lastJob.ok
    /\ Len(lastJob.calls) = 4
    /\ lastJob.env.new_version = "rewritten"
    /\ ChannelState(lastJob.dst, lastJob.value.dst_channel) = "Open"

HandshakeKinds == {"create_connection", "create_channel"}
C25_Expected(kind, i) ==
    CASE kind = "create_connection" /\ i \in {1, 2} ->
            {<<"connection_open", "connection_id">>}
      [] kind = "create_channel" /\ i = 1 ->
            {<<"channel_open_init", "version">>, <<"channel_open_init", "channel_id">>}
      [] kind = "create_channel" /\ i = 2 ->
            {<<"channel_open_try", "version">>, <<"channel_open_try", "channel_id">>}
      [] OTHER -> {}
Has(events, event_type, attr_key) ==
    \E i \in 1..Len(events) :
        /\ events[i].ty = event_type
        /\ \E k \in 1..Len(events[i].attributes) : events[i].attributes[k].key = attr_key
Lacking(kind, i, events) ==
    \E r \in C25_Expected(kind, i) : ~Has(events, r[1], r[2])
Created(calls, chain, kind) ==
    Cardinality({i \in 1..Len(calls) :
        /\ calls[i].ok /\ calls[i].app = chain /\ calls[i].kind = kind
        /\ kind = "CreateConnection" => ~calls[i].msg.connection_id.some})
C25_Stops ==
    /\ job.kind \in HandshakeKinds =>
          \A i \in 1..Len(job.calls) : ~Lacking(job.kind, i, job.calls[i].events)
    /\ lastJob.kind \in HandshakeKinds =>
          \A i \in 1..Len(lastJob.calls) :
              lastJob.calls[i].ok /\ Lacking(lastJob.kind, i, lastJob.calls[i].events)
                  => /\ i = Len(lastJob.calls)
                     /\ ~lastJob.ok
                     /\ lastJob.err = "event"
C25_Once ==
    \A j \in {job, lastJob} :
        /\ j.kind = "create_connection" => Prefix(Phases(j.calls), C23_Plan(j))
        /\ j.kind = "create_channel" => Prefix(Phases(j.calls), C24_Plan(j))
C25_Stays ==
    Returned("create_connection") \/ Returned("create_channel") =>
        (lastJob.err = "event" =>
            \A c \in Chains :
                /\ Prefix(lastJob.pre[c].connections, chains[c].connections)
                /\ Len(chains[c].connections) = Len(lastJob.pre[c].connections)
                      + Created(lastJob.calls, c, "CreateConnection")
                /\ Len(chains[c].channels) = Len(lastJob.pre[c].channels)
                      + Created(lastJob.calls, c, "OpenChannel")
                /\ \A i \in 1..Len(lastJob.pre[c].channels) :
                      chains[c].channels[i] = lastJob.pre[c].channels[i])

\* C25: when a handshake step's response lacks the connection_open event's
\* connection_id, or the channel_open_init or channel_open_try event's version
\* or channel_id, the call returns an error at that step: that relay is its
\* last one, no step is sent twice, and each chain keeps the records that the
\* relays up to and including that one committed.
C25_Fatal == C25_Stops /\ C25_Once /\ C25_Stays

\* C25 witness: create_channel failed on the response of the try step, which
\* left an Init channel on the source and a TryOpen channel on the destination
C25_Witness ==
    /\ Returned("create_channel") /\ lastJob.err = "event"
    /\ Len(lastJob.calls) = 2
    /\ Len(chains[lastJob.src].channels) = Len(lastJob.pre[lastJob.src].channels) + 1
    /\ chains[lastJob.dst].channels[Len(chains[lastJob.dst].channels)].state = "TryOpen"
    /\ chains[lastJob.src].channels[Len(chains[lastJob.src].channels)].state = "Init"

\* C26: a create_channel over an established connection, the modules answering
\* each step with its events, returns the four responses non-empty and each
\* under its own name, and for each side the id of the channel this call
\* opened there: non-empty, new to the side, and held by no other channel of it.
C26_Complete ==
    Returned("create_channel") /\ lastJob.ok /\ Clean(lastJob.calls) =>
        LET r == lastJob.value IN
        /\ has_event(r.init, "channel_open_init")
        /\ has_event(r.try, "channel_open_try")
        /\ has_event(r.ack, "channel_open_ack")
        /\ has_event(r.confirm, "channel_open_confirm")
        /\ r.src_channel # <<>> /\ r.dst_channel # <<>>
        /\ Index(lastJob.pre[lastJob.src].channels, r.src_channel) = {}
        /\ Index(lastJob.pre[lastJob.dst].channels, r.dst_channel) = {}
        /\ Cardinality(Index(chains[lastJob.src].channels, r.src_channel)) = 1
        /\ Cardinality(Index(chains[lastJob.dst].channels, r.dst_channel)) = 1
        /\ get_event_attr_value(r.init, "channel_open_init", "channel_id")
              = Some(r.src_channel)
        /\ get_event_attr_value(r.try, "channel_open_try", "channel_id")
              = Some(r.dst_channel)

\* C26 witness: a successful create_channel on chains of which one already
\* holds a channel, so that the two ids returned differ
C26_Witness ==
    /\ Returned("create_channel") /\ lastJob.ok /\ Clean(lastJob.calls)
    /\ lastJob.value.src_channel # lastJob.value.dst_channel
    /\ lastJob.value.init # <<>> /\ lastJob.value.confirm # <<>>
    /\ Len(chains[lastJob.src].channels) = 2

\* --------------------------------------------------- properties: packets
\* the record of the packet a job is about, as the chain given holds it
SentAs(cs, j) ==
    cs[j.src].sent[CHOOSE i \in Stored(cs[j.src], j.args.channel_id, j.args.sequence) : TRUE]
Known(j) == Stored(j.pre[j.src], j.args.channel_id, j.args.sequence) # {}

C27_Source ==
    \A j \in {job, lastJob} :
        j.kind = "timeout_packet" =>
            /\ Len(j.calls) <= 1
            /\ \A k \in 1..Len(j.calls) :
                  j.calls[k].app = j.src /\ j.calls[k].kind = "Timeout"
C27_Once ==
    Returned("timeout_packet") =>
        /\ Known(lastJob) <=> Len(lastJob.calls) = 1
        /\ lastJob.ok =>
              /\ lastJob.calls[1].hook = "ibc_packet_timeout"
              /\ SentAs(chains, lastJob).timed_out
              /\ ~SentAs(lastJob.pre, lastJob).timed_out
              /\ chains[lastJob.src].locked = lastJob.pre[lastJob.src].locked - 1
              /\ chains[lastJob.src].owner = lastJob.pre[lastJob.src].owner + 1
C27_Frame ==
    /\ job.kind = "timeout_packet" => chains[job.dst] = job.pre[job.dst]
    /\ Returned("timeout_packet") => chains[lastJob.dst] = lastJob.pre[lastJob.dst]

\* C27: timeout_packet sends one Timeout to the source chain once it has found
\* the packet there, which on success runs the port's timeout hook once and
\* marks the packet timed out; it sends nothing to the destination chain,
\* whose state is the same after the call as before.
C27_TimeoutOnly == C27_Source /\ C27_Once /\ C27_Frame

\* C27 witness: timeout_packet has timed out a packet the destination never
\* received
C27_Witness ==
    /\ Returned("timeout_packet") /\ lastJob.ok
    /\ SentAs(chains, lastJob).timed_out
    /\ PacketKey(lastJob.env.packet) \notin chains[lastJob.dst].received
    /\ chains[lastJob.dst] = lastJob.pre[lastJob.dst]

C28_Plan(j) == <<<<j.dst, "Receive">>, <<j.src, "Timeout">>>>
C28_Order ==
    \A j \in {job, lastJob} :
        j.kind = "receive_and_timeout_packet" =>
            /\ Prefix(Phases(j.calls), C28_Plan(j))
            /\ Len(j.calls) = 2 => j.calls[1].ok /\ j.calls[1].hook = "ibc_packet_receive"
C28_Kept ==
    Returned("receive_and_timeout_packet") =>
        (Len(lastJob.calls) >= 1 /\ lastJob.calls[1].ok =>
            LET before == lastJob.pre[lastJob.dst]
                hooked == lastJob.calls[1].hook = "ibc_packet_receive"
            IN  /\ PacketKey(lastJob.calls[1].msg.packet) \notin before.received
                /\ chains[lastJob.dst].received =
                      before.received \cup {PacketKey(lastJob.calls[1].msg.packet)}
                /\ chains[lastJob.dst].recipient =
                      before.recipient + (IF hooked THEN 1 ELSE 0))
C28_TimedOut ==
    Returned("receive_and_timeout_packet") /\ lastJob.ok =>
        /\ Len(lastJob.calls) = 2
        /\ lastJob.calls[2].hook = "ibc_packet_timeout"
        /\ SentAs(chains, lastJob).timed_out /\ ~SentAs(chains, lastJob).acked
        /\ chains[lastJob.src].locked = lastJob.pre[lastJob.src].locked - 1
        /\ chains[lastJob.src].owner = lastJob.pre[lastJob.src].owner + 1
        /\ lastJob.value = <<lastJob.calls[1].events, lastJob.calls[2].events,
                             <<"bytes", lastJob.env.packet.sequence>>>>

\* C28: receive_and_timeout_packet sends Receive to the destination and only
\* after that Timeout to the source; the destination keeps what the Receive
\* did (the packet marked received, the coin credited) whatever happens after
\* it, and when the call returns Ok the source has the packet timed out and
\* the coin refunded.
C28_ReceiveThenTimeout == C28_Order /\ C28_Kept /\ C28_TimedOut

\* C28 witness: the call returned Ok with the coin credited on the destination
\* and refunded on the source
C28_Witness ==
    /\ Returned("receive_and_timeout_packet") /\ lastJob.ok
    /\ chains[lastJob.dst].recipient = lastJob.pre[lastJob.dst].recipient + 1
    /\ chains[lastJob.src].owner = lastJob.pre[lastJob.src].owner + 1
    /\ SentAs(chains, lastJob).timed_out

C29_Exclusive ==
    \A c \in Chains : \A i \in 1..Len(chains[c].sent) :
        ~(chains[c].sent[i].acked /\ chains[c].sent[i].timed_out)
C29_Rejected ==
    job = NoJob /\ lastJob.kind # "none" /\ Known(lastJob) =>
        (SentAs(lastJob.pre, lastJob).acked \/ SentAs(lastJob.pre, lastJob).timed_out =>
            /\ \A k \in 1..Len(lastJob.calls) :
                  lastJob.calls[k].kind \in {"Acknowledge", "Timeout"}
                      => ~lastJob.calls[k].ok
            /\ SentAs(chains, lastJob) = SentAs(lastJob.pre, lastJob))
C29_Final ==
    \A c \in Chains : \A i \in 1..Len(chains[c].sent) :
        /\ chains[c].sent[i].acked => chains'[c].sent[i].acked
        /\ chains[c].sent[i].timed_out => chains'[c].sent[i].timed_out

C30_NoLateReceive ==
    \A j \in {job, lastJob} :
        j.kind # "none" /\ Known(j) /\ SentAs(j.pre, j).timed_out =>
            \A k \in 1..Len(j.calls) :
                ~(/\ j.calls[k].kind = "Receive"
                  /\ j.calls[k].app = j.dst
                  /\ j.calls[k].ok
                  /\ j.calls[k].hook = "ibc_packet_receive")

\* ------------------------------------------------ properties: agreement
ChannelOf(chain, id) ==
    chains[chain].channels[CHOOSE i \in Index(chains[chain].channels, id) : TRUE]

\* C40: after create_channel has returned Ok, the source's channel records the
\* destination's port and channel id as its counterparty and the destination's
\* records the source's, and both channels hold the version that the response
\* of the TryOpen step carries.
C40_Agree ==
    Returned("create_channel") /\ lastJob.ok =>
        LET a == ChannelOf(lastJob.src, lastJob.value.src_channel)
            b == ChannelOf(lastJob.dst, lastJob.value.dst_channel)
            tried == get_event_attr_value(lastJob.value.try, "channel_open_try", "version")
        IN  /\ a.port_id = lastJob.args.src_port
            /\ b.port_id = lastJob.args.dst_port
            /\ a.counterparty_endpoint =
                  IbcEndpoint(lastJob.args.dst_port, lastJob.value.dst_channel)
            /\ b.counterparty_endpoint =
                  IbcEndpoint(lastJob.args.src_port, lastJob.value.src_channel)
            /\ tried.some
            /\ a.version = tried.v
            /\ b.version = tried.v

\* C40 witness: a successful create_channel in which the source's module
\* rewrote the version at Init and the destination's did not at TryOpen, on
\* chains whose channel ids differ
C40_Witness ==
    /\ Returned("create_channel") /\ lastJob.ok
    /\ get_event_attr_value(lastJob.value.init, "channel_open_init", "version")
          = Some("rewritten")
    /\ get_event_attr_value(lastJob.value.try, "channel_open_try", "version")
          = Some("ics20-1")
    /\ lastJob.value.src_channel # lastJob.value.dst_channel
    /\ ChannelOf(lastJob.src, lastJob.value.src_channel).version = "ics20-1"


\* ----------------------------------------------- properties: reply errors
\* the Reply of the innermost frame has returned an error
ReplyFailed == pc = "ret" /\ ~ret.ok /\ Top(stack).kind = "R"

\* a Reply called for a submessage of invocation p has returned an error
ReplyFailedIn(p) == \E u \in SubIds : Sub(u).rep = "err" /\ Sub(u).parent = p

\* a Reply is called after a success under Success and Always only, and after a
\* failure under Error and Always only
C36_Policies ==
    \A u \in SubIds :
        Sub(u).rep = "err" =>
            Sub(u).reply_on \in (IF Sub(u).ok THEN {"Success", "Always"}
                                 ELSE {"Error", "Always"})

\* the error of the Reply is handed as it is to the parent's process_response
C36_ToParent ==
    ReplyFailed =>
        /\ pc' = "ret"
        /\ ret' = ret
        /\ stack' = Pop(stack)
        /\ Top(stack').kind = "P"
        /\ Top(stack').inv = Sub(Top(stack).uid).parent

\* the parent returns that error, under the context Wasm::execute adds
C36_ParentFails ==
    (pc = "ret" /\ ~ret.ok /\ Top(stack).kind = "P") =>
        /\ pc' = "ret"
        /\ ~ret'.ok
        /\ ret'.err.kind = ret.err.kind
        /\ ret'.err.inv = ret.err.inv
        /\ stack' = Pop(stack)

\* no parent left on the stack has had a Reply of its own fail, unless the
\* error is just being returned to it
C36_NoneGoesOn ==
    \A i \in 1..Len(stack) :
        (stack[i].kind = "P" /\ ReplyFailedIn(stack[i].inv))
            => i = Len(stack) /\ pc = "ret" /\ ~ret.ok

\* the transaction the failing parent ran in is dropped: the store is again
\* what it was before the parent was called
C36_Dropped == FailedCall => View' = Top(stack).pre

\* the top-level call whose own Reply failed returns the error and leaves the
\* chain's store as it was
C36_TopLevel ==
    (pc = "ret" /\ Top(stack).kind = "T" /\ ReplyFailedIn(1)) =>
        /\ ~ret.ok
        /\ last' = ret
        /\ layers' = <<Top(stack).pre>>

\* C36: when the Reply called for a submessage returns an error, the parent
\* call fails with that error under every reply policy that calls a Reply and
\* whether the submessage had succeeded or failed, and the writes of the parent,
\* of the submessage and of the Reply are gone once the top-level call returns
C36_ReplyError ==
    /\ [](C36_Policies /\ C36_NoneGoesOn)
    /\ [][C36_ToParent /\ C36_ParentFails /\ C36_Dropped /\ C36_TopLevel]_vars

\* C36, its case: a top-level call has failed because the Reply for a
\* submessage that had succeeded under Success returned an error, and the
\* writes of the parent and of the submessage were dropped with it
C36_Witness ==
    /\ pc = "idle"
    /\ ~last.ok
    /\ undone = Contracts \X SKeys
    /\ \E u \in SubIds : /\ Sub(u).ok
                         /\ Sub(u).reply_on = "Success"
                         /\ Sub(u).rep = "err"
                         /\ Sub(u).parent = 1


\* ------------------------------------------ properties: registry rollback
\* the step is an instantiation that registered the contract and then could
\* not move the funds, or found no code, or had its entry point fail
InstantiateUndone ==
    /\ lastOp'.kind = "instantiate"
    /\ ~lastOp'.intact
    /\ lastOp'.funds > 0 \/ lastOp'.err \in {"bank", "code", "contract"}

\* the step is a migration that recorded the new code id and then found no
\* code for it, or had its entry point fail
MigrateUndone ==
    /\ lastOp'.kind = "migrate"
    /\ ~lastOp'.intact
    /\ lastOp'.err \in {"code", "contract"}

C35_Instantiate ==
    InstantiateUndone =>
        /\ lastOp'.err # "none"
        /\ contracts' = contracts
        /\ lastOp'.addr \notin DOMAIN contracts'
        /\ instance_count(contracts') = instance_count(contracts)
        /\ assigned' = assigned

C35_Migrate ==
    MigrateUndone =>
        /\ contracts' = contracts
        /\ contract_data(contracts', lastOp'.addr).data.code_id
              = contract_data(contracts, lastOp'.addr).data.code_id
        /\ lastOp'.stored = lastOp'.code_id

\* C35: an instantiate or a migrate that fails after it has updated the
\* registry (the funds cannot be moved, the code cannot be found, the entry
\* point errors) leaves the registry as before once the top-level call has
\* returned: no record at the generated address and the same instance count
\* after the instantiate, the old code id after the migrate
C35_RegistryRestored == [][C35_Instantiate /\ C35_Migrate]_vars

\* C35, its case: an instantiation with funds the sender does not hold has
\* failed after it had saved the contract's record, and no record is left at the
\* address it generated
C35_Witness ==
    /\ lastOp.kind = "instantiate"
    /\ lastOp.err = "bank"
    /\ lastOp.funds > 0
    /\ ~lastOp.intact
    /\ lastOp.addr # NoAddr
    /\ lastOp.addr \notin DOMAIN contracts
    /\ instance_count(contracts) = 0

\* ---------------------------------------- properties: removals over calls
\* C34: a key that a contract removed in a call that was committed reads as
\* absent in every later entry-point call and raw query for that contract,
\* even though the remote chain holds a value for it
C34_RemovedInEarlierCall ==
    (lastGet.op = "get" /\ lastGet.key \in gone) =>
        /\ lastGet.value = NoVal
        /\ lastGet.raw = <<>>

\* ------------------------------------------ properties: range iteration
\* C38: a range iteration ends after finitely many steps and yields each
\* record of the remote chain at most once, whether the remote chain ends its
\* paging with no continuation or with an empty continuation key
C38_EachRemoteOnce ==
    \A i, j \in 1..Len(out) :
        (i < j /\ out[i].src = "remote" /\ out[j].src = "remote")
            => out[i].key # out[j].key

\* C39: every record a range iteration yields, local or remote, ascending or
\* descending, has a key that is not below the start bound and is strictly
\* below the end bound
C39_InBounds ==
    \A i \in 1..Len(out) :
        /\ iter.distant_iter.start.some => ~LexLess(out[i].key, iter.distant_iter.start.v)
        /\ iter.distant_iter.end.some => LexLess(out[i].key, iter.distant_iter.end.v)

\* ----------------------------------------------------- properties: bank
\* how much of a denomination a coin list asks for
RECURSIVE SumOf(_, _)
SumOf(amount, denom) ==
    IF amount = <<>> THEN 0
    ELSE (IF Head(amount).denom = denom THEN Head(amount).amount ELSE 0)
         + SumOf(Tail(amount), denom)

\* the list is empty or holds only coins of amount zero
AllZero(amount) == \A i \in 1..Len(amount) : amount[i].amount = 0

\* the list asks for more of a denomination than is held
Exceeds(held, amount) == \E d \in NativeDenoms : SumOf(amount, d) > held[d]

\* C33: a Send, Burn or Mint whose coin list is empty or holds only zero
\* amounts fails, a Send or Burn for more than the sender holds fails, and in
\* each case the handler has written nothing and all balances are as before
C33_Rejected ==
    (/\ lastBank.kind \in {"send", "burn", "mint"}
     /\ \/ AllZero(lastBank.amount)
        \/ /\ lastBank.kind \in {"send", "burn"}
           /\ Exceeds(lastBank.pre[lastBank.sender], lastBank.amount))
        => /\ ~lastBank.ok
           /\ lastBank.left = lastBank.pre
           /\ balances = lastBank.pre

\* C33, its case: a Send of two coins has failed, the sender holding enough of
\* the first one and too little of the second, and another Send of a single
\* coin of amount zero is possible from the same balances
C33_Witness ==
    /\ lastBank.kind = "send"
    /\ ~lastBank.ok
    /\ Len(lastBank.amount) = 2
    /\ lastBank.amount[1].amount > 0
    /\ lastBank.amount[1].denom # lastBank.amount[2].denom
    /\ lastBank.pre[lastBank.sender][lastBank.amount[1].denom] >= lastBank.amount[1].amount
    /\ lastBank.pre[lastBank.sender][lastBank.amount[2].denom] < lastBank.amount[2].amount
    /\ balances = lastBank.pre

\* C37: a transfer packet is paid out of the locked funds, in its own
\* denomination, only when that denomination was sent out earlier through the
\* channel the packet arrives on; in every other case the receiver is minted
\* the denomination wrapped with the destination channel; no more of a
\* denomination is paid out than is locked
C37_ReceivePaysLocked ==
    (lastBank.kind = "ibc_packet_receive" /\ lastBank.amount[1].amount > 0) =>
        LET denom == lastBank.amount[1].denom
            n == lastBank.amount[1].amount
            wrapped == wrap_ibc_denom(lastBank.channel, denom)
            locked == lastBank.pre[IBC_LOCK_MODULE_ADDRESS][denom]
        IN  IF <<lastBank.channel, denom>> \in sent_through /\ locked >= n
            THEN /\ lastBank.paid = "locked"
                 /\ balances[lastBank.to][denom] = lastBank.pre[lastBank.to][denom] + n
                 /\ balances[IBC_LOCK_MODULE_ADDRESS][denom] = locked - n
            ELSE /\ lastBank.paid = "minted"
                 /\ balances[lastBank.to][wrapped] = lastBank.pre[lastBank.to][wrapped] + n
                 /\ balances[IBC_LOCK_MODULE_ADDRESS] = lastBank.pre[IBC_LOCK_MODULE_ADDRESS]

\* ------------------------------------------------- properties: transfers
\* relay_packet has returned Ok for a packet sent with a timeout that had
\* already passed
RelayedExpired ==
    /\ Returned("relay_packet")
    /\ lastJob.ok
    /\ SentAs(lastJob.pre, lastJob).packet.expired

\* the transfer takes the coin from the sender and locks it
C32_Debited ==
    \A c \in Senders :
        Len(chains'[c].sent) = Len(chains[c].sent) + 1 =>
            /\ chains'[c].owner = chains[c].owner - 1
            /\ chains'[c].locked = chains[c].locked + 1

\* one result, whose receive transaction carries the timeout-on-receive event;
\* nothing for the recipient; the coin back with the sender
C32_Refunded ==
    RelayedExpired =>
        /\ Len(lastJob.calls) = 2
        /\ lastJob.value.receive_tx = lastJob.calls[1].events
        /\ has_event(lastJob.value.receive_tx, TIMEOUT_RECEIVE_PACKET_EVENT)
        /\ lastJob.calls[1].app = lastJob.dst
        /\ chains[lastJob.dst].recipient = lastJob.pre[lastJob.dst].recipient
        /\ chains[lastJob.src].owner = lastJob.pre[lastJob.src].owner + 1

\* C32: a transfer sent with a timeout the destination has already reached
\* debits the sender; when the packet is relayed, the one result returned has
\* a receive transaction with the timeout-on-receive event, the recipient gets
\* nothing on the destination, and the sender holds the transferred coin again
C32_TimeoutRefunds == []C32_Refunded /\ [][C32_Debited]_vars

\* C32, its case: the sender had sent all its coins, and the relay of a packet
\* whose timeout had passed gave one of them back while the recipient has none
C32_Witness ==
    /\ RelayedExpired
    /\ lastJob.pre[lastJob.src].owner = 0
    /\ chains[lastJob.src].owner = 1
    /\ chains[lastJob.dst].recipient = 0

\* C31, as stated: after the relay of a transfer whose timeout had passed the
\* source has its timeout event, the destination's balances are unchanged,
\* and the sender's balance on the source is still debited by the amount sent
C31_StaysDebited ==
    RelayedExpired /\ Clean(lastJob.calls) =>
        /\ has_event(lastJob.value.result, TIMEOUT_PACKET_EVENT)
        /\ chains[lastJob.dst].recipient = lastJob.pre[lastJob.dst].recipient
        /\ chains[lastJob.src].owner = lastJob.pre[lastJob.src].owner
        /\ chains[lastJob.src].locked = lastJob.pre[lastJob.src].locked

============================================================================
